---- MODULE Spec2Model ----
(***************************************************************************)
(* Candidate-set loss primitives of modeling_roberta.py.                   *)
(*                                                                         *)
(* A training loop calls the forward method of one task head at a time:    *)
(* the head is idle, a call draws a batch, computes the loss and returns,  *)
(* and the result is dropped before the next call.                         *)
(*                                                                         *)
(* Real numbers.  Scores and logits are integers.  A sum of exponentials   *)
(*   exp(x1) + ... + exp(xn)                                               *)
(* is kept exactly, as the bag of its exponents (a polynomial in e with    *)
(* natural coefficients).  Since e is transcendental two such sums are     *)
(* equal as reals exactly when their bags are equal.  exp(-inf) = 0 adds   *)
(* nothing to the bag, so the empty bag is the sum 0, whose log is -inf.   *)
(* A log-ratio [norm, score, n] stands for                                 *)
(*   (log(sum norm) - log(sum score)) / n.                                 *)
(***************************************************************************)
EXTENDS Integers, Sequences, FiniteSets, Bags, TLC

VARIABLES pc, head, args, ret

vars == <<pc, head, args, ret>>

(***************************************************************************)
(* Bounds of the model.                                                    *)
(***************************************************************************)
MaxBsz == 2
MaxSegment == 2
MaxTargets == 2
MaxSlots == 4
SeqLen == 2

(***************************************************************************)
(* Program constants.                                                      *)
(***************************************************************************)
IgnoreIndex == -1
MaskValue == -10000
NegInf == -1000000000

\* float32: exp(x) is 0 for every x below -104, so a term that far below
\* the largest one adds nothing to a logsumexp
ExpUnderflow == 104

\* an absent argument or result (Python None)
None == <<>>

Idle == "none"

(***************************************************************************)
(* Tensor helpers.                                                         *)
(***************************************************************************)
Range(s) == {s[i] : i \in DOMAIN s}

\* 0-based indexing of a 1-based sequence
At(s, i) == s[i + 1]

RECURSIVE Concat(_)
Concat(rows) == IF rows = <<>> THEN <<>> ELSE Head(rows) \o Concat(Tail(rows))

\* a view that keeps one segment per example
ViewFirstSegment(t) == [e \in DOMAIN t |-> t[e][1]]

\* tensor.view(bsz, -1) of a (bsz, a, b) tensor: row-major flattening of the
\* two trailing axes
ViewBszFlat(t) == [e \in DOMAIN t |-> Concat(t[e])]

\* tensor.view(bsz, max_segment, -1) of a (bsz*max_segment, seq_len) tensor
ViewSegments(flat, bsz, max_segment) ==
    [e \in 1..bsz |-> [s \in 1..max_segment |-> flat[(e - 1) * max_segment + s]]]

(***************************************************************************)
(* Exact sums of exponentials.                                             *)
(***************************************************************************)
ExpSum(row) ==
    [v \in Range(row) \ {NegInf} |-> Cardinality({i \in DOMAIN row : row[i] = v})]

RECURSIVE SumOver(_, _, _)
SumOver(S, a, b) ==
    IF S = {} THEN 0
    ELSE LET p == CHOOSE q \in S : TRUE
         IN a[p[1]] * b[p[2]] + SumOver(S \ {p}, a, b)

\* product of two sums of exponentials
PolyMul(a, b) ==
    LET P == (DOMAIN a) \X (DOMAIN b)
        D == {p[1] + p[2] : p \in P}
    IN [d \in D |-> SumOver({p \in P : p[1] + p[2] = d}, a, b)]

PolyOne == [v \in {0} |-> 1]

RECURSIVE PolyProd(_)
PolyProd(s) == IF s = <<>> THEN PolyOne ELSE PolyMul(Head(s), PolyProd(Tail(s)))

\* torch.logsumexp over the last axis: the log of the exact sum
LogSumExp(t) == [e \in DOMAIN t |-> ExpSum(t[e])]

\* tensor.mean() of a vector of log-ratios
Mean(losses) ==
    [norm  |-> PolyProd([i \in DOMAIN losses |-> losses[i].norm]),
     score |-> PolyProd([i \in DOMAIN losses |-> losses[i].score]),
     n     |-> Len(losses)]

\* (a + b) / 2 for two means over the same number of rows
HalfSum(a, b) ==
    [norm |-> PolyMul(a.norm, b.norm), score |-> PolyMul(a.score, b.score), n |-> 2 * a.n]

IsFinite(l) == l.norm # EmptyBag /\ l.score # EmptyBag /\ l.n > 0

(***************************************************************************)
(* Marginal span loss (RobertaForTriviaQuestionAnswering,                  *)
(* RobertaForQuestionAnsweringHotpotSeg).                                  *)
(* logits: (bsz, max_segment, seq_len); target: (bsz, max_segment, T).     *)
(***************************************************************************)
\* target_mask = target == ignore_index
TargetMask(target, ignore_index) ==
    [e \in DOMAIN target |-> [s \in DOMAIN target[e] |-> [k \in DOMAIN target[e][s] |->
        target[e][s][k] = ignore_index]]]

\* masked_target = target * (1 - target_mask.long())
MaskedTarget(target, target_mask) ==
    [e \in DOMAIN target |-> [s \in DOMAIN target[e] |-> [k \in DOMAIN target[e][s] |->
        target[e][s][k] * (1 - (IF target_mask[e][s][k] THEN 1 ELSE 0))]]]

\* logits.gather(dim=-1, index) raises when an index is outside [0, seq_len)
GatherInRange(logits, index) ==
    \A e \in DOMAIN index : \A s \in DOMAIN index[e] : \A k \in DOMAIN index[e][s] :
        index[e][s][k] >= 0 /\ index[e][s][k] < Len(logits[e][s])

\* a gather in the flattened (max_segment*seq_len) coordinates of the example
GatherFlattened(logits, index) ==
    [e \in DOMAIN index |-> [s \in DOMAIN index[e] |-> [k \in DOMAIN index[e][s] |->
        At(Concat(logits[e]), index[e][s][k])]]]

\* logits.gather(dim=-1, index=masked_target)
Gather(logits, index) ==
    [e \in DOMAIN index |-> [s \in DOMAIN index[e] |-> [k \in DOMAIN index[e][s] |->
        At(logits[e][s], index[e][s][k])]]]

\* the mask never applied: a masked slot keeps the logit of placeholder index 0
MaskFillSkipped(gathered, target_mask) == gathered

\* the mask of the original loss, float('-inf')
MaskFillNegInf(gathered, target_mask) ==
    [e \in DOMAIN gathered |-> [s \in DOMAIN gathered[e] |-> [k \in DOMAIN gathered[e][s] |->
        IF target_mask[e][s][k] THEN NegInf ELSE gathered[e][s][k]]]]

\* gathered_logits[target_mask] = -10000.0
MaskFill(gathered, target_mask) ==
    [e \in DOMAIN gathered |-> [s \in DOMAIN gathered[e] |-> [k \in DOMAIN gathered[e][s] |->
        IF target_mask[e][s][k] THEN MaskValue ELSE gathered[e][s][k]]]]

\* loss = -(log_score - log_norm), one log-ratio per example
NegDiff(log_score, log_norm) ==
    [e \in DOMAIN log_score |-> [norm |-> log_norm[e], score |-> log_score[e], n |-> 1]]

\* return loss.mean()
ReduceLoss(loss) == Mean(loss)

or_softmax_cross_entropy_loss_one_doc(logits, target, ignore_index) ==
    LET target_mask   == TargetMask(target, ignore_index)
        masked_target == MaskedTarget(target, target_mask)
    IN IF ~GatherInRange(logits, masked_target)
       THEN [status |-> "IndexError", target_mask |-> target_mask,
             masked_target |-> masked_target]
       ELSE LET gathered_logits == MaskFill(Gather(logits, masked_target), target_mask)
                gathered_flat   == ViewBszFlat(gathered_logits)
                logits_flat     == ViewBszFlat(logits)
                log_score       == LogSumExp(gathered_flat)
                log_norm        == LogSumExp(logits_flat)
                loss            == NegDiff(log_score, log_norm)
            IN [status |-> "ok", target_mask |-> target_mask,
                masked_target |-> masked_target,
                gathered_logits |-> gathered_logits,
                gathered_flat |-> gathered_flat, logits_flat |-> logits_flat,
                log_score |-> log_score, log_norm |-> log_norm,
                loss |-> loss, mean |-> ReduceLoss(loss)]

(***************************************************************************)
(* Batches of the span heads.  The encoder and qa_outputs give one         *)
(* (start, end) logit pair per token of each of the bsz*max_segment rows.  *)
(***************************************************************************)
LogitFills == {"asc", "desc", "low", "flat", "hot"}

Cell(fill, r, p) ==
    CASE fill = "asc"  -> (r - 1) * SeqLen + (p - 1)
      [] fill = "desc" -> 0 - ((r - 1) * SeqLen + (p - 1))
      [] fill = "low"  -> -20000 - ((r - 1) * SeqLen + (p - 1))
      [] fill = "flat" -> 0
      [] fill = "hot"  -> IF p = 1 THEN 50 + r ELSE (r - 1) * SeqLen + (p - 1)

EndFill(fill) ==
    CASE fill = "asc"  -> "desc"
      [] fill = "desc" -> "low"
      [] fill = "low"  -> "flat"
      [] fill = "flat" -> "hot"
      [] fill = "hot"  -> "asc"

\* qa_outputs(sequence_output): (bsz*max_segment, seq_len, 2)
QaLogits(fill, rows) ==
    [r \in 1..rows |-> [p \in 1..SeqLen |-> <<Cell(fill, r, p), Cell(EndFill(fill), r, p)>>]]

SpanShapes ==
    {sh \in (1..MaxBsz) \X (1..MaxSegment) \X (1..MaxTargets) :
        sh[1] * sh[2] * sh[3] <= MaxSlots}

\* a target is ignore_index or a position; position seq_len lies outside a
\* segment but inside the flattened (max_segment*seq_len) range
TargetVals == {IgnoreIndex} \cup (0..SeqLen)

Positions(sh) == [1..sh[1] -> [1..sh[2] -> [1..sh[3] -> TargetVals]]]

\* end positions that go with given start positions
EndPositions(start_positions) ==
    LET P == start_positions
    IN {P,
        [e \in DOMAIN P |-> [s \in DOMAIN P[e] |-> [k \in DOMAIN P[e][s] |-> IgnoreIndex]]],
        [e \in DOMAIN P |-> [s \in DOMAIN P[e] |-> [k \in DOMAIN P[e][s] |-> 0]]]}

\* logits.split(1, dim=-1) and squeeze(-1)
Split(logits, c) == [r \in DOMAIN logits |-> [p \in DOMAIN logits[r] |-> logits[r][p][c]]]

TriviaForwardResult(logits, bsz, max_segment, start_positions, end_positions) ==
    LET start_logits == ViewSegments(Split(logits, 1), bsz, max_segment)
        end_logits   == ViewSegments(Split(logits, 2), bsz, max_segment)
        start_loss   == or_softmax_cross_entropy_loss_one_doc(start_logits, start_positions, IgnoreIndex)
        end_loss     == or_softmax_cross_entropy_loss_one_doc(end_logits, end_positions, IgnoreIndex)
    IN IF start_loss.status # "ok" \/ end_loss.status # "ok"
       THEN [status |-> "IndexError", start_logits |-> start_logits,
             end_logits |-> end_logits, start |-> start_loss, end |-> end_loss]
       ELSE [status |-> "ok", start_logits |-> start_logits, end_logits |-> end_logits,
             start |-> start_loss, end |-> end_loss,
             total_loss |-> HalfSum(start_loss.mean, end_loss.mean)]

TriviaForward ==
    /\ pc = "idle"
    /\ \E sh \in SpanShapes, fill \in LogitFills :
         \E start_positions \in Positions(sh) :
           \E end_positions \in EndPositions(start_positions) :
             LET logits == QaLogits(fill, sh[1] * sh[2])
             IN /\ args' = [logits |-> logits, bsz |-> sh[1], max_segment |-> sh[2],
                            start_positions |-> start_positions,
                            end_positions |-> end_positions]
                /\ ret' = TriviaForwardResult(logits, sh[1], sh[2],
                                              start_positions, end_positions)
    /\ head' = "RobertaForTriviaQuestionAnswering"
    /\ pc' = "returned"

\* the caller takes the outputs; nothing of the call is kept
Return ==
    /\ pc = "returned"
    /\ pc' = "idle"
    /\ head' = Idle
    /\ args' = None
    /\ ret' = None

Init ==
    /\ pc = "idle"
    /\ head = Idle
    /\ args = None
    /\ ret = None

NextSpan == TriviaForward \/ Return

(***************************************************************************)
(* The marginal span loss called twice on the same logits: with a target   *)
(* row of two gold positions, and with the second of them replaced by      *)
(* ignore_index.                                                           *)
(***************************************************************************)
\* the target slots <<segment, slot>> of one example
RowSlots(sh) == (1..sh[2]) \X (1..sh[3])

\* targets that are ignore_index everywhere but for the given slots of
\* example e; gold is a set of <<slot, position>>
GoldTargets(sh, e, gold) ==
    [x \in 1..sh[1] |-> [s \in 1..sh[2] |-> [k \in 1..sh[3] |->
        IF x = e /\ \E g \in gold : g[1] = <<s, k>>
        THEN (CHOOSE g \in gold : g[1] = <<s, k>>)[2]
        ELSE IgnoreIndex]]]

SpanLossGoldPair ==
    /\ pc = "idle"
    /\ \E sh \in SpanShapes, fill \in LogitFills :
         \E e \in 1..sh[1], kept \in RowSlots(sh), added \in RowSlots(sh),
            a \in 0..(SeqLen - 1), b \in 0..(SeqLen - 1) :
           LET logits == ViewSegments(Split(QaLogits(fill, sh[1] * sh[2]), 1), sh[1], sh[2])
               both   == GoldTargets(sh, e, {<<kept, a>>, <<added, b>>})
               single == GoldTargets(sh, e, {<<kept, a>>})
           IN /\ kept # added
              /\ <<kept[1], a>> # <<added[1], b>>
              /\ args' = [logits |-> logits, e |-> e, kept |-> <<kept, a>>,
                          added |-> <<added, b>>, both |-> both, single |-> single]
              /\ ret' = [both   |-> or_softmax_cross_entropy_loss_one_doc(logits, both, IgnoreIndex),
                         single |-> or_softmax_cross_entropy_loss_one_doc(logits, single, IgnoreIndex)]
    /\ head' = "or_softmax_cross_entropy_loss_one_doc"
    /\ pc' = "returned"

NextGoldPair == SpanLossGoldPair \/ Return

SpecGoldPair == Init /\ [][NextGoldPair]_vars

SpecSpan == Init /\ [][NextSpan]_vars

(***************************************************************************)
(* Vectors, rationals and weighted sums of logs.                           *)
(*                                                                         *)
(* F.logsigmoid(x) = -log(1 + exp(-x)) is the term                         *)
(*   [c |-> -1, sm |-> 1, atom |-> 1 + exp(-x)],                           *)
(* read as c * sm * log(atom): c a rational <<num, den>>, sm a softmax     *)
(* weight exp(num) / sum(den) taken after the shift by the row maximum     *)
(* (softmax is invariant under it), atom an exact sum of exponentials.     *)
(* A scalar is NaN or the bag of its non-zero terms.                       *)
(***************************************************************************)
\* index j of an axis of length n that is broadcast when n = 1
Broadcast(n, j) == IF n = 1 THEN 1 ELSE j

\* the length of two broadcast axes; two axes are compatible when they are
\* equal or one of them is 1
BroadcastLen(m, n) == IF m >= n THEN m ELSE n

BroadcastOk(m, n) == m = n \/ m = 1 \/ n = 1

Abs(x) == IF x < 0 THEN 0 - x ELSE x

RECURSIVE SumSeq(_)
SumSeq(s) == IF s = <<>> THEN 0 ELSE Head(s) + SumSeq(Tail(s))

MaxOf(row) == CHOOSE m \in Range(row) : \A x \in Range(row) : x <= m

VecAdd(a, b) == [j \in DOMAIN a |-> a[j] + b[j]]

VecSub(a, b) == [j \in DOMAIN a |-> a[j] - b[j]]

\* the sum of the components, without their absolute values
NormSigned(v) == SumSeq(v)

\* torch.norm(x, p=1, dim=-1)
Norm1(v) == SumSeq([j \in DOMAIN v |-> Abs(v[j])])

\* torch.sum(a * b, dim=-1)
Dot(a, b) == SumSeq([j \in DOMAIN a |-> a[j] * b[j]])

RECURSIVE GCD(_, _)
GCD(a, b) == IF b = 0 THEN a ELSE GCD(b, a % b)

\* the rational n / d in lowest terms, d >= 0; 0 / 0 is NaN
Rat(n, d) ==
    IF d = 0 THEN <<0, 0>>
    ELSE LET g == GCD(Abs(n), d) IN <<n \div g, d \div g>>

RatMul(a, b) == Rat(a[1] * b[1], a[2] * b[2])

RatNaN == <<0, 0>>

SoftmaxOne == [num |-> 0, den |-> PolyOne]

\* F.logsigmoid(x)
LogSigmoid(x) == [c |-> <<-1, 1>>, sm |-> SoftmaxOne, atom |-> ExpSum(<<0, 0 - x>>)]

\* F.softmax(row, dim=1)[k]
\* exp(row_k - max) left undivided by the sum over the row
SoftmaxUnnormalised(row, k) == [num |-> row[k] - MaxOf(row), den |-> PolyOne]

Softmax(row, k) ==
    [num |-> row[k] - MaxOf(row), den |-> ExpSum([j \in DOMAIN row |-> row[j] - MaxOf(row)])]

\* the terms of a row, each scaled by the rational q
ScaleRow(terms, q) == [j \in DOMAIN terms |-> [terms[j] EXCEPT !.c = RatMul(@, q)]]

\* tensor.sum() of a vector of rows of terms
SumTerms(rows) ==
    LET all == Concat(rows)
        live == {j \in DOMAIN all : all[j].c[1] # 0 \/ all[j].c[2] = 0}
    IN IF \E j \in live : all[j].c = RatNaN
       THEN [nan |-> TRUE, terms |-> EmptyBag]
       ELSE [nan |-> FALSE,
             terms |-> [x \in {all[j] : j \in live} |->
                           Cardinality({j \in live : all[j] = x})]]

\* the weighted sum divided by the number of rows
WeightedReduceByCount(x, weight) ==
    SumTerms([i \in DOMAIN x |->
                ScaleRow(x[i], Rat(0 - weight[Broadcast(Len(weight), i)], Len(x)))])

\* -(weight * x).sum() / weight.sum(), a single weight broadcast over x
WeightedReduce(x, weight) ==
    SumTerms([i \in DOMAIN x |->
                ScaleRow(x[i], Rat(0 - weight[Broadcast(Len(weight), i)], SumSeq(weight)))])

\* -x.mean()
MeanReduce(x) == SumTerms([i \in DOMAIN x |-> ScaleRow(x[i], Rat(-1, Len(x)))])

\* (a + b) / 2 of two scalars
HalfSumTerms(a, b) ==
    IF a.nan \/ b.nan THEN [nan |-> TRUE, terms |-> EmptyBag]
    ELSE LET u == a.terms (+) b.terms
             h(x) == [x EXCEPT !.c = RatMul(@, <<1, 2>>)]
         IN [nan |-> FALSE,
             terms |-> [y \in {h(x) : x \in DOMAIN u} |-> u[CHOOSE x \in DOMAIN u : h(x) = y]]]

(***************************************************************************)
(* RobertaForTransE: margin loss with self-adversarial negative weights.   *)
(***************************************************************************)
MaxNegK == 2
MaxWeight == 2
NumEnt == 4
Dim == 2

NumRel == 2
TransEGamma == 5
AdvTemperature == 1
BertCoefPercent == 5

\* the entity table, the relation table and the relation head of the text
\* encoder: learned parameters, fixed during a call
EntEmbeddings(tbl, id) == [j \in 1..Dim |-> ((id * j + tbl) % 5) - 2]

RelEmbeddings(tbl, id) == [j \in 1..Dim |-> ((id + j + tbl) % 3) - 1]

RelHead(tbl, i) == [j \in 1..Dim |-> 20 * (((i + j + tbl) % 3) - 1)]

\* r = self.bert_ceof * r
BertCoef(r) == [j \in DOMAIN r |-> (BertCoefPercent * r[j]) \div 100]

\* the positive-score branch dropped with the minus sign of the negatives
NegativeTermsUnsigned(negative_score) ==
    [i \in DOMAIN negative_score |->
        [k \in DOMAIN negative_score[i] |->
            [LogSigmoid(negative_score[i][k]) EXCEPT
                !.sm = Softmax([j \in DOMAIN negative_score[i] |->
                                   negative_score[i][j] * AdvTemperature], k)]]]

\* (F.softmax(negative_score * 1.0, dim=1).detach() * F.logsigmoid(-negative_score)).sum(dim=1)
NegativeTerms(negative_score) ==
    [i \in DOMAIN negative_score |->
        [k \in DOMAIN negative_score[i] |->
            [LogSigmoid(0 - negative_score[i][k]) EXCEPT
                !.sm = Softmax([j \in DOMAIN negative_score[i] |->
                                   negative_score[i][j] * AdvTemperature], k)]]]

\* F.logsigmoid(positive_score)
PositiveTerms(positive_score) ==
    [i \in DOMAIN positive_score |-> <<LogSigmoid(positive_score[i])>>]

\* the two branches of lines 982-987
SampleLoss(x, subsampling_weight) ==
    IF subsampling_weight # None THEN WeightedReduce(x, subsampling_weight)
    ELSE MeanReduce(x)

\* a loss that leaves the weights out of the negative term
MarginLossNegUnweighted(positive_score, negative_score, subsampling_weight) ==
    LET positive_sample_loss == SampleLoss(PositiveTerms(positive_score), subsampling_weight)
        negative_sample_loss == MeanReduce(NegativeTerms(negative_score))
    IN [positive_sample_loss |-> positive_sample_loss,
        negative_sample_loss |-> negative_sample_loss,
        loss |-> HalfSumTerms(positive_sample_loss, negative_sample_loss)]

\* lines 975-988
MarginLoss(positive_score, negative_score, subsampling_weight) ==
    LET positive_sample_loss == SampleLoss(PositiveTerms(positive_score), subsampling_weight)
        negative_sample_loss == SampleLoss(NegativeTerms(negative_score), subsampling_weight)
    IN [positive_sample_loss |-> positive_sample_loss,
        negative_sample_loss |-> negative_sample_loss,
        loss |-> HalfSumTerms(positive_sample_loss, negative_sample_loss)]

\* the early return of line 972-973 taken whenever no weight is given
ReturnsScoresAlways(input_ids, subsampling_weight) == subsampling_weight = None

\* if input_ids is None and subsampling_weight is None: return (negative_score,)
ReturnsScores(input_ids, subsampling_weight) ==
    input_ids = None /\ subsampling_weight = None

TransEForwardResult(tbl, input_ids, e1_idx, e2_idx, neg_e1_idxs, neg_e2_idxs, relation_idx, subsampling_weight) ==
    LET bsz == Len(e1_idx)
        h == [i \in 1..bsz |-> EntEmbeddings(tbl, e1_idx[i])]
        t == [i \in 1..bsz |-> EntEmbeddings(tbl, e2_idx[i])]
        r == IF relation_idx # None
             THEN [i \in 1..bsz |-> RelEmbeddings(tbl, relation_idx[i])]
             ELSE [i \in 1..bsz |-> BertCoef(RelHead(tbl, input_ids[i]))]
        p_score == [i \in 1..bsz |-> VecSub(VecAdd(h[i], r[i]), t[i])]
        corrupt_head == relation_idx # None /\ neg_e1_idxs # None
        neg_idxs == IF corrupt_head THEN neg_e1_idxs ELSE neg_e2_idxs
        \* neg_h + (r - t).unsqueeze(1) and (h + r).unsqueeze(1) - neg_t
        \* broadcast the batch axis of the queries against that of the negatives
        rows == BroadcastLen(bsz, Len(neg_idxs))
        n_score == [i \in 1..rows |->
                      LET q == Broadcast(bsz, i)
                          n == Broadcast(Len(neg_idxs), i)
                      IN [k \in DOMAIN neg_idxs[n] |->
                            IF corrupt_head
                            THEN VecAdd(EntEmbeddings(tbl, neg_idxs[n][k]), VecSub(r[q], t[q]))
                            ELSE VecSub(VecAdd(h[q], r[q]), EntEmbeddings(tbl, neg_idxs[n][k]))]]
        negative_score == [i \in 1..rows |-> [k \in DOMAIN n_score[i] |->
                              TransEGamma - Norm1(n_score[i][k])]]
        positive_score == [i \in 1..bsz |-> TransEGamma - Norm1(p_score[i])]
    IN CASE relation_idx # None /\ neg_e1_idxs = None /\ neg_e2_idxs = None ->
              [status |-> "AssertionError"]
         [] relation_idx = None /\ input_ids = None ->
              [status |-> "ValueError"]
         [] relation_idx = None /\ input_ids # None /\ neg_e2_idxs = None ->
              [status |-> "TypeError"]
         [] OTHER ->
              IF ~BroadcastOk(bsz, Len(neg_idxs)) THEN [status |-> "RuntimeError"]
              ELSE IF ReturnsScores(input_ids, subsampling_weight)
              THEN [status |-> "ok", kind |-> "scores", corrupt_head |-> corrupt_head,
                    negative_score |-> negative_score]
              ELSE [status |-> "ok", kind |-> "loss", corrupt_head |-> corrupt_head,
                    positive_score |-> positive_score,
                    negative_score |-> negative_score,
                    neg_weights |-> [i \in 1..rows |-> [k \in DOMAIN negative_score[i] |->
                                       Softmax([j \in DOMAIN negative_score[i] |->
                                                  negative_score[i][j] * AdvTemperature], k)]],
                    out |-> MarginLoss(positive_score, negative_score, subsampling_weight)]

Opt(present, v) == IF present THEN v ELSE None

TransEShapes == (1..MaxBsz) \X (1..MaxNegK)

Weights(bsz) == {None} \cup [1..bsz -> 0..MaxWeight]

TransEForward ==
    /\ pc = "idle"
    /\ \E sh \in TransEShapes, a \in 0..(NumEnt - 1), tbl \in 1..2,
          has_input \in BOOLEAN, has_rel \in BOOLEAN,
          has_neg1 \in BOOLEAN, has_neg2 \in BOOLEAN :
         \E subsampling_weight \in Weights(sh[1]) :
           LET bsz == sh[1]
               K == sh[2]
               e1_idx == [i \in 1..bsz |-> (a + i) % NumEnt]
               e2_idx == [i \in 1..bsz |-> (a + 2 * i + 1) % NumEnt]
               negs == [i \in 1..bsz |-> [k \in 1..K |-> (a + i + 2 * k) % NumEnt]]
               relation_idx == Opt(has_rel, [i \in 1..bsz |-> (a + i) % NumRel])
               input_ids == Opt(has_input, [i \in 1..bsz |-> a + i])
               neg_e1_idxs == Opt(has_neg1, negs)
               neg_e2_idxs == Opt(has_neg2, negs)
           IN /\ args' = [tbl |-> tbl, input_ids |-> input_ids, e1_idx |-> e1_idx,
                          e2_idx |-> e2_idx, neg_e1_idxs |-> neg_e1_idxs,
                          neg_e2_idxs |-> neg_e2_idxs, relation_idx |-> relation_idx,
                          subsampling_weight |-> subsampling_weight]
              /\ ret' = TransEForwardResult(tbl, input_ids, e1_idx, e2_idx, neg_e1_idxs,
                                            neg_e2_idxs, relation_idx, subsampling_weight)
    /\ head' = "RobertaForTransE"
    /\ pc' = "returned"

\* a call whose negatives do not have one row per query
TransEForwardUneven ==
    /\ pc = "idle"
    /\ \E sh \in TransEShapes, nb \in 1..(MaxBsz + 1), a \in 0..(NumEnt - 1), tbl \in 1..2,
          has_input \in BOOLEAN, has_rel \in BOOLEAN,
          has_neg1 \in BOOLEAN, has_neg2 \in BOOLEAN :
         \E subsampling_weight \in Weights(sh[1]) :
           LET bsz == sh[1]
               K == sh[2]
               e1_idx == [i \in 1..bsz |-> (a + i) % NumEnt]
               e2_idx == [i \in 1..bsz |-> (a + 2 * i + 1) % NumEnt]
               negs == [i \in 1..nb |-> [k \in 1..K |-> (a + i + 2 * k) % NumEnt]]
               relation_idx == Opt(has_rel, [i \in 1..bsz |-> (a + i) % NumRel])
               input_ids == Opt(has_input, [i \in 1..bsz |-> a + i])
               neg_e1_idxs == Opt(has_neg1, negs)
               neg_e2_idxs == Opt(has_neg2, negs)
           IN /\ nb # bsz
              /\ args' = [tbl |-> tbl, input_ids |-> input_ids, e1_idx |-> e1_idx,
                          e2_idx |-> e2_idx, neg_e1_idxs |-> neg_e1_idxs,
                          neg_e2_idxs |-> neg_e2_idxs, relation_idx |-> relation_idx,
                          subsampling_weight |-> subsampling_weight]
              /\ ret' = TransEForwardResult(tbl, input_ids, e1_idx, e2_idx, neg_e1_idxs,
                                            neg_e2_idxs, relation_idx, subsampling_weight)
    /\ head' = "RobertaForTransE"
    /\ pc' = "returned"

NextTransE == TransEForward \/ Return

SpecTransE == Init /\ [][NextTransE]_vars

NextUneven == TransEForwardUneven \/ Return

SpecUneven == Init /\ [][NextUneven]_vars

(***************************************************************************)
(* Contrastive heads: RobertaForMerge, RobertaForFix, RobertaForTogether.  *)
(* entity_rep is the projected last-token vector of every entity row.      *)
(***************************************************************************)
InBatchPenalty == 10000
TogetherGamma == 5
LmIgnoreIndex == -1

TokLen == 2
Vocab == 2

EntFills == {"asc", "alt", "big"}

EntityCell(fill, r, j) ==
    CASE fill = "asc" -> IF j = 1 THEN r ELSE 1
      [] fill = "alt" -> IF j = 1 THEN (IF r % 2 = 0 THEN r ELSE 0 - r) ELSE r % 3
      [] fill = "big" -> IF j = 1 THEN 100 * r ELSE 100
      [] fill = "unit" -> ((r + j) % 3) - 1
      [] fill = "mix" -> ((r * j) % 3) - 1

EntityRep(fill, rows) == [r \in 1..rows |-> [j \in 1..Dim |-> EntityCell(fill, r, j)]]

\* zero-based slice t[lo:hi] of Python, clipped to the tensor
Slice(t, lo, hi) ==
    LET a == IF lo > Len(t) THEN Len(t) ELSE lo
        b == IF hi > Len(t) THEN Len(t) ELSE hi
    IN IF b <= a THEN <<>> ELSE SubSeq(t, a + 1, b)

\* entity_rep[:bsz]
QueryRep(entity_rep, bsz) == Slice(entity_rep, 0, bsz)

\* entity_rep[bsz:2*bsz]
PosRep(entity_rep, bsz) == Slice(entity_rep, bsz, 2 * bsz)

\* a negative slice that starts one row early
NegRepFromPositive(entity_rep, bsz) == Slice(entity_rep, 2 * bsz - 1, Len(entity_rep))

\* entity_rep[2*bsz:]
NegRep(entity_rep, bsz) == Slice(entity_rep, 2 * bsz, Len(entity_rep))

\* neg_rep.view(bsz, neg_K, -1) followed by the broadcast against
\* query_rep.unsqueeze(1) works only when neg_rep has exactly bsz*neg_K rows:
\* otherwise the view fails or its last axis differs from that of the queries
ViewNegOk(neg_rep, bsz, neg_K) == bsz > 0 /\ Len(neg_rep) = bsz * neg_K

\* torch.sum(query_rep * pos_rep, dim=-1)
PosScores(query_rep, pos_rep) == [i \in DOMAIN query_rep |-> Dot(query_rep[i], pos_rep[i])]

\* the negatives viewed as (neg_K, bsz) and transposed: query i against the
\* rows i, bsz + i, ...
ExplicitNegScoresStrided(query_rep, neg_rep, neg_K) ==
    [i \in DOMAIN query_rep |-> [k \in 1..neg_K |->
        Dot(query_rep[i], neg_rep[(k - 1) * Len(query_rep) + i])]]

\* torch.sum(query_rep.unsqueeze(1) * neg_rep.view(bsz, neg_K, -1), dim=-1)
ExplicitNegScores(query_rep, neg_rep, neg_K) ==
    [i \in DOMAIN query_rep |-> [k \in 1..neg_K |->
        Dot(query_rep[i], neg_rep[(i - 1) * neg_K + k])]]

\* loss_mask = (cur_page_ids.unsqueeze(-1) == neg_page_ids.view(-1).unsqueeze(0))
CollisionMask(cur_page_ids, neg_page_ids) ==
    [i \in DOMAIN cur_page_ids |-> [j \in DOMAIN neg_page_ids |->
        IF cur_page_ids[i] = neg_page_ids[j] THEN 1 ELSE 0]]

\* the in-batch scores with the mask left out
InBatchNegScoresUnmasked(query_rep, neg_rep, loss_mask) ==
    [i \in DOMAIN query_rep |->
        [j \in 1..BroadcastLen(Len(neg_rep), Len(loss_mask[i])) |->
            Dot(query_rep[i], neg_rep[Broadcast(Len(neg_rep), j)])]]

\* torch.matmul(query_rep, neg_rep.T) - 10000.0 * loss_mask, the mask
\* broadcast against the scores
InBatchNegScores(query_rep, neg_rep, loss_mask) ==
    [i \in DOMAIN query_rep |->
        [j \in 1..BroadcastLen(Len(neg_rep), Len(loss_mask[i])) |->
            Dot(query_rep[i], neg_rep[Broadcast(Len(neg_rep), j)])
            - InBatchPenalty * loss_mask[i][Broadcast(Len(loss_mask[i]), j)]]]

\* the positive score appended after the negative scores
CatScoresPositiveLast(pos_scores, neg_scores) ==
    [i \in DOMAIN pos_scores |-> neg_scores[i] \o <<pos_scores[i]>>]

\* torch.cat([pos_scores.unsqueeze(-1), neg_scores], dim=-1)
CatScores(pos_scores, neg_scores) ==
    [i \in DOMAIN pos_scores |-> <<pos_scores[i]>> \o neg_scores[i]]

\* labels that point each query at its own column
LabelsArange(bsz) == [i \in 1..bsz |-> i - 1]

\* labels = torch.zeros(bsz)
Labels(bsz) == [i \in 1..bsz |-> 0]

\* CrossEntropyLoss()(scores, labels): mean over rows of
\* logsumexp(scores_i) - scores_i[labels_i]; NaN on an empty batch
CrossEntropy(scores, labels) ==
    Mean([i \in DOMAIN scores |->
            [norm |-> ExpSum(scores[i]), score |-> ExpSum(<<At(scores[i], labels[i])>>), n |-> 1]])

\* lines 1268-1282, 1604-1625 and 1393-1412: the listwise loss
Listwise(entity_rep, bsz, neg_K, in_batch, cur_page_ids, neg_page_ids) ==
    LET query_rep  == QueryRep(entity_rep, bsz)
        pos_rep    == PosRep(entity_rep, bsz)
        neg_rep    == NegRep(entity_rep, bsz)
        pos_scores == PosScores(query_rep, pos_rep)
        layout     == [bsz |-> bsz, query_rep |-> query_rep, pos_rep |-> pos_rep,
                       neg_rep |-> neg_rep]
    IN IF Len(pos_rep) # Len(query_rep) THEN [status |-> "RuntimeError"] @@ layout
       ELSE IF in_batch
       THEN IF Len(neg_page_ids) # Len(neg_rep) /\ Len(neg_page_ids) # 1 /\ Len(neg_rep) # 1
            THEN [status |-> "RuntimeError"] @@ layout
            ELSE LET loss_mask  == CollisionMask(cur_page_ids, neg_page_ids)
                     neg_scores == InBatchNegScores(query_rep, neg_rep, loss_mask)
                     scores     == CatScores(pos_scores, neg_scores)
                     labels     == Labels(bsz)
                 IN [status |-> "ok", kind |-> "listwise", pos_scores |-> pos_scores,
                     loss_mask |-> loss_mask, neg_scores |-> neg_scores,
                     scores |-> scores, labels |-> labels,
                     ent_loss |-> CrossEntropy(scores, labels)] @@ layout
       ELSE IF ~ViewNegOk(neg_rep, bsz, neg_K)
            THEN [status |-> "RuntimeError"] @@ layout
            ELSE LET neg_scores == ExplicitNegScores(query_rep, neg_rep, neg_K)
                     scores     == CatScores(pos_scores, neg_scores)
                     labels     == Labels(bsz)
                 IN [status |-> "ok", kind |-> "listwise", pos_scores |-> pos_scores,
                     neg_scores |-> neg_scores, scores |-> scores, labels |-> labels,
                     ent_loss |-> CrossEntropy(scores, labels)] @@ layout

(***************************************************************************)
(* Masked language modelling of RobertaForMerge and RobertaForTogether.    *)
(* A hidden state is named by its place <<row, token>> in sequence_output. *)
(***************************************************************************)
\* every flat index, labelled or not
MaskedTokenIndexesAll(lm_labels) == [n \in DOMAIN Concat(lm_labels) |-> n - 1]

\* torch.nonzero((lm_labels + 1).view(-1)).view(-1)
MaskedTokenIndexes(lm_labels) ==
    LET flat == Concat(lm_labels)
        RECURSIVE Pick(_)
        Pick(i) == IF i > Len(flat) THEN <<>>
                   ELSE (IF flat[i] + 1 # 0 THEN <<i - 1>> ELSE <<>>) \o Pick(i + 1)
    IN Pick(1)

\* torch.index_select(lm_labels.view(-1), 0, masked_token_indexes)
SelectTargets(lm_labels, idx) == [n \in DOMAIN idx |-> At(Concat(lm_labels), idx[n])]

\* torch.index_select(x.view(-1, x.shape[-1]), 0, masked_token_indexes):
\* the hidden state at flat index n of a (rows, seq_len, hidden) output
SelectHidden(idx) == [n \in DOMAIN idx |-> <<idx[n] \div TokLen + 1, idx[n] % TokLen>>]

\* self.decoder(x): the vocabulary scores of a hidden state
Decoder(hid) == [v \in 1..Vocab |-> (hid[1] * (v + 1) + hid[2] * v) % 7]

\* CrossEntropyLoss(ignore_index=-1) over the selected tokens
MaskedLmLoss(lm_labels) ==
    LET idx    == MaskedTokenIndexes(lm_labels)
        target == SelectTargets(lm_labels, idx)
        hidden == SelectHidden(idx)
        rows   == [n \in DOMAIN idx |->
                     [norm |-> ExpSum(Decoder(hidden[n])),
                      score |-> ExpSum(<<At(Decoder(hidden[n]), target[n])>>),
                      n |-> 1]]
        kept(r) == r.score # EmptyBag
    IN [masked_token_indexes |-> idx, target |-> target, hidden |-> hidden,
        loss |-> Mean(SelectSeq([n \in DOMAIN idx |->
                                    IF target[n] = LmIgnoreIndex
                                    THEN [norm |-> EmptyBag, score |-> EmptyBag, n |-> 1]
                                    ELSE rows[n]], kept))]

LmPatterns == {"none", "all", "first"}

\* "all" labels every token of the first two rows
LmLabels(pat, bsz) ==
    [b \in 1..bsz |-> [t \in 1..TokLen |->
        CASE pat = "none"  -> LmIgnoreIndex
          [] pat = "all"   -> IF b <= 2 THEN (b + t) % Vocab ELSE LmIgnoreIndex
          [] pat = "first" -> IF b = 1 /\ t = 1 THEN 1 ELSE LmIgnoreIndex]]

(***************************************************************************)
(* The margin branch of RobertaForTogether (self.p = 1), lines 1414-1444.  *)
(***************************************************************************)
Margin(entity_rep, bsz, neg_K, in_batch, cur_page_ids, neg_page_ids) ==
    LET query_rep == QueryRep(entity_rep, bsz)
        pos_rep   == PosRep(entity_rep, bsz)
        neg_rep   == NegRep(entity_rep, bsz)
        layout    == [bsz |-> bsz, query_rep |-> query_rep, pos_rep |-> pos_rep,
                      neg_rep |-> neg_rep]
        positive_score == [i \in DOMAIN query_rep |->
                              TogetherGamma - Norm1(VecSub(query_rep[i], pos_rep[i]))]
        positive_sample_loss == MeanReduce([i \in DOMAIN query_rep |->
                                              <<LogSigmoid(positive_score[i])>>])
    IN IF Len(pos_rep) # Len(query_rep) \/ ~ViewNegOk(neg_rep, bsz, neg_K)
       THEN [status |-> "RuntimeError"] @@ layout
       ELSE IF in_batch
       THEN IF Len(neg_page_ids) # Len(neg_rep) /\ Len(neg_page_ids) # 1 /\ Len(neg_rep) # 1
            THEN [status |-> "RuntimeError"] @@ layout
            ELSE LET loss_mask == [i \in DOMAIN cur_page_ids |-> [j \in DOMAIN neg_page_ids |->
                                     IF cur_page_ids[i] # neg_page_ids[j] THEN 1 ELSE 0]]
                     negative_score == [i \in DOMAIN query_rep |-> [j \in DOMAIN neg_rep |->
                                          TogetherGamma - Norm1(VecSub(query_rep[i], neg_rep[j]))]]
                     valid == SumSeq([i \in DOMAIN loss_mask |-> SumSeq(loss_mask[i])])
                     negative_sample_loss ==
                         SumTerms([i \in DOMAIN query_rep |-> [j \in DOMAIN neg_rep |->
                             [LogSigmoid(0 - negative_score[i][j]) EXCEPT
                                 !.c = RatMul(@, Rat(0 - loss_mask[i][j], valid))]]])
                 IN [status |-> "ok", kind |-> "margin", loss_mask |-> loss_mask,
                     valid |-> valid, positive_score |-> positive_score,
                     negative_score |-> negative_score,
                     positive_sample_loss |-> positive_sample_loss,
                     negative_sample_loss |-> negative_sample_loss,
                     ent_loss |-> HalfSumTerms(positive_sample_loss, negative_sample_loss)]
                    @@ layout
       ELSE LET negative_score == [i \in DOMAIN query_rep |-> [k \in 1..neg_K |->
                                     TogetherGamma
                                     - Norm1(VecSub(query_rep[i], neg_rep[(i - 1) * neg_K + k]))]]
                negative_sample_loss ==
                    SumTerms([i \in DOMAIN query_rep |-> [k \in 1..neg_K |->
                        [LogSigmoid(0 - negative_score[i][k]) EXCEPT
                            !.c = RatMul(@, Rat(-1, bsz * neg_K))]]])
            IN [status |-> "ok", kind |-> "margin", positive_score |-> positive_score,
                negative_score |-> negative_score,
                positive_sample_loss |-> positive_sample_loss,
                negative_sample_loss |-> negative_sample_loss,
                ent_loss |-> HalfSumTerms(positive_sample_loss, negative_sample_loss)]
               @@ layout

(***************************************************************************)
(* Batches of the contrastive heads.                                       *)
(***************************************************************************)
Extras == {0, 1}

ContrastShapes == (1..MaxBsz) \X (1..MaxNegK) \X Extras

\* neg_page_ids names bsz*neg_K candidates, or one for every row after the
\* positives when the batch has rows left over
NegIdCounts(sh) == {sh[1] * sh[2], sh[1] * sh[2] + sh[3]}

\* page identifiers: every query on a page of its own; the negatives on
\* fresh pages ("none"), one negative on the page of one query ("one"),
\* each negative on the page of the query it was drawn for ("own"), or
\* everything on one page ("all")
PagePatterns(bsz, m) ==
    {<<"none", 0, 0>>, <<"own", 0, 0>>, <<"all", 0, 0>>}
    \cup {<<"one", i, j>> : i \in 1..bsz, j \in {1, m}}

CurPageIds(pat, bsz) == [i \in 1..bsz |-> IF pat[1] = "all" THEN 1 ELSE i]

NegPageIds(pat, bsz, neg_K, m) ==
    [j \in 1..m |->
        CASE pat[1] = "none" -> 100 + j
          [] pat[1] = "all"  -> 1
          [] pat[1] = "own"  -> (j - 1) \div neg_K + 1
          [] pat[1] = "one"  -> IF j = pat[3] THEN pat[2] ELSE 100 + j]

\* RobertaForMerge.forward; RobertaForMerge has no in-batch regime.  The
\* regime (in_batch) and the norm (p) of the other two heads are attributes
\* that forward reads on every call, so a call carries them with its inputs.
MergeForwardResult(entity_rep, neg_K, is_eval, lm_labels) ==
    IF lm_labels # None THEN [status |-> "ok", kind |-> "mlm", mlm |-> MaskedLmLoss(lm_labels)]
    ELSE IF is_eval THEN [status |-> "ok", kind |-> "eval", entity_rep |-> entity_rep]
    ELSE LET r == Listwise(entity_rep, Len(entity_rep) \div (neg_K + 2), neg_K,
                           FALSE, None, None)
         IN IF r.status # "ok" THEN r
            \* loss += 0 * torch.mean(tmp): zero times the mean of the finite
            \* decoder scores of the first token leaves the loss as it is
            ELSE [loss |-> r.ent_loss] @@ r

MergeForward ==
    /\ pc = "idle"
    /\ \E sh \in ContrastShapes, fill \in EntFills, is_eval \in BOOLEAN,
          lm \in LmPatterns \cup {"absent"} :
         LET rows == sh[1] * (sh[2] + 2) + sh[3]
             entity_rep == EntityRep(fill, rows)
             lm_labels == IF lm = "absent" THEN None ELSE LmLabels(lm, rows)
         IN /\ args' = [entity_rep |-> entity_rep, neg_K |-> sh[2], in_batch |-> FALSE,
                        p |-> None, is_eval |-> is_eval, lm_labels |-> lm_labels,
                        cur_page_ids |-> None, neg_page_ids |-> None]
            /\ ret' = MergeForwardResult(entity_rep, sh[2], is_eval, lm_labels)
    /\ head' = "RobertaForMerge"
    /\ pc' = "returned"

\* tensor.detach(): whether the result is still attached to the graph of
\* the tensor g it was taken from; it never is
Detach(g) == FALSE

\* lines 1383-1389: which of the three slices of entity_rep (which carries
\* gradient) still carry gradient when the scores are formed
TogetherGrad(is_detach) ==
    LET query_rep == TRUE
        pos_rep   == Detach(TRUE)
        neg_rep   == Detach(TRUE)
    IN [query_rep |-> query_rep,
        pos_rep   |-> IF is_detach THEN Detach(pos_rep) ELSE pos_rep,
        neg_rep   |-> IF is_detach THEN Detach(neg_rep) ELSE neg_rep]

\* lines 1596-1602: RobertaForFix detaches nothing
FixGrad == [query_rep |-> TRUE, pos_rep |-> TRUE, neg_rep |-> TRUE]

\* RobertaForFix.forward
FixForwardResult(entity_rep, neg_K, in_batch, cur_page_ids, neg_page_ids) ==
    [requires_grad |-> FixGrad]
    @@ Listwise(entity_rep, Len(entity_rep) \div (neg_K + 2), neg_K, in_batch,
                cur_page_ids, neg_page_ids)

FixForward ==
    /\ pc = "idle"
    /\ \E sh \in ContrastShapes, fill \in EntFills, in_batch \in BOOLEAN :
         \E m \in NegIdCounts(sh) : \E pat \in PagePatterns(sh[1], m) :
           LET rows == sh[1] * (sh[2] + 2) + sh[3]
               entity_rep == EntityRep(fill, rows)
               cur_page_ids == CurPageIds(pat, sh[1])
               neg_page_ids == NegPageIds(pat, sh[1], sh[2], m)
           IN /\ args' = [entity_rep |-> entity_rep, neg_K |-> sh[2], in_batch |-> in_batch,
                          p |-> None, is_eval |-> FALSE, lm_labels |-> None,
                          cur_page_ids |-> cur_page_ids, neg_page_ids |-> neg_page_ids]
              /\ ret' = FixForwardResult(entity_rep, sh[2], in_batch, cur_page_ids, neg_page_ids)
    /\ head' = "RobertaForFix"
    /\ pc' = "returned"

\* loss = ent_loss + masked_lm_loss
Plus(a, b) == [plus |-> <<a, b>>]

\* RobertaForTogether.forward; bsz = lm_labels.shape[0], and entity_rep is
\* the projection of sequence_output[bsz:, -1]
TogetherForwardResult(entity_rep, neg_K, in_batch, p, is_eval, is_detach, lm_labels, cur_page_ids, neg_page_ids) ==
    LET bsz == Len(lm_labels)
        ent == IF p = None
               THEN Listwise(entity_rep, bsz, neg_K, in_batch, cur_page_ids, neg_page_ids)
               ELSE Margin(entity_rep, bsz, neg_K, in_batch, cur_page_ids, neg_page_ids)
        mlm == MaskedLmLoss(lm_labels)
    IN IF is_eval THEN [status |-> "ok", kind |-> "eval", entity_rep |-> entity_rep]
       ELSE IF ent.status # "ok" THEN [requires_grad |-> TogetherGrad(is_detach)] @@ ent
       ELSE [mlm |-> mlm, masked_lm_loss |-> mlm.loss,
             loss |-> Plus(ent.ent_loss, mlm.loss),
             requires_grad |-> TogetherGrad(is_detach)] @@ ent

TogetherForward ==
    /\ pc = "idle"
    /\ \E sh \in ContrastShapes, fill \in EntFills, in_batch \in BOOLEAN,
          p \in {None, <<1>>}, is_eval \in BOOLEAN, is_detach \in BOOLEAN,
          lm \in LmPatterns :
         \E m \in NegIdCounts(sh) : \E pat \in PagePatterns(sh[1], m) :
           LET rows == sh[1] * (sh[2] + 2) + sh[3]
               entity_rep == EntityRep(fill, rows)
               lm_labels == LmLabels(lm, sh[1])
               cur_page_ids == CurPageIds(pat, sh[1])
               neg_page_ids == NegPageIds(pat, sh[1], sh[2], m)
           IN /\ args' = [entity_rep |-> entity_rep, neg_K |-> sh[2], in_batch |-> in_batch,
                          p |-> p, is_eval |-> is_eval, is_detach |-> is_detach,
                          lm_labels |-> lm_labels,
                          cur_page_ids |-> cur_page_ids, neg_page_ids |-> neg_page_ids]
              /\ ret' = TogetherForwardResult(entity_rep, sh[2], in_batch, p, is_eval,
                                              is_detach, lm_labels, cur_page_ids,
                                              neg_page_ids)
    /\ head' = "RobertaForTogether"
    /\ pc' = "returned"

(***************************************************************************)
(* The same batch presented twice, the second time with two rows of its    *)
(* negative slice exchanged (every reordering is a product of exchanges).  *)
(* In the in-batch regime the identifiers of the candidates move with      *)
(* their rows.                                                             *)
(***************************************************************************)
Swap(m, j, k) == [x \in 1..m |-> IF x = j THEN k ELSE IF x = k THEN j ELSE x]

\* the pairs of negative rows that can be exchanged
Swaps(m) == {jk \in (1..m) \X (1..m) : jk[1] < jk[2]}

\* the batch with row 2*bsz + x replaced by row 2*bsz + perm[x]
ReorderNegatives(entity_rep, bsz, perm) ==
    [r \in DOMAIN entity_rep |->
        IF r <= 2 * bsz THEN entity_rep[r] ELSE entity_rep[2 * bsz + perm[r - 2 * bsz]]]

ReorderIds(neg_page_ids, perm) == [j \in DOMAIN neg_page_ids |-> neg_page_ids[perm[j]]]

MergeForwardReordered ==
    /\ pc = "idle"
    /\ \E bsz \in 1..MaxBsz, neg_K \in 1..MaxNegK, fill \in EntFills :
         \E jk \in Swaps(bsz * neg_K) :
           LET entity_rep == EntityRep(fill, bsz * (neg_K + 2))
               perm == Swap(bsz * neg_K, jk[1], jk[2])
               reordered == ReorderNegatives(entity_rep, bsz, perm)
           IN /\ args' = [entity_rep |-> entity_rep, neg_K |-> neg_K, in_batch |-> FALSE,
                          cur_page_ids |-> None, neg_page_ids |-> None, perm |-> perm,
                          reordered |-> reordered]
              /\ ret' = [first  |-> MergeForwardResult(entity_rep, neg_K, FALSE, None),
                         second |-> MergeForwardResult(reordered, neg_K, FALSE, None)]
    /\ head' = "RobertaForMerge"
    /\ pc' = "returned"

FixForwardReordered ==
    /\ pc = "idle"
    /\ \E bsz \in 1..MaxBsz, neg_K \in 1..MaxNegK, fill \in EntFills, in_batch \in BOOLEAN :
         \E jk \in Swaps(bsz * neg_K), pat \in PagePatterns(bsz, bsz * neg_K) :
           LET entity_rep == EntityRep(fill, bsz * (neg_K + 2))
               perm == Swap(bsz * neg_K, jk[1], jk[2])
               reordered == ReorderNegatives(entity_rep, bsz, perm)
               cur_page_ids == CurPageIds(pat, bsz)
               neg_page_ids == NegPageIds(pat, bsz, neg_K, bsz * neg_K)
           IN /\ args' = [entity_rep |-> entity_rep, neg_K |-> neg_K, in_batch |-> in_batch,
                          cur_page_ids |-> cur_page_ids, neg_page_ids |-> neg_page_ids,
                          perm |-> perm, reordered |-> reordered]
              /\ ret' = [first  |-> FixForwardResult(entity_rep, neg_K, in_batch,
                                                     cur_page_ids, neg_page_ids),
                         second |-> FixForwardResult(reordered, neg_K, in_batch, cur_page_ids,
                                                     ReorderIds(neg_page_ids, perm))]
    /\ head' = "RobertaForFix"
    /\ pc' = "returned"

NextReorder == MergeForwardReordered \/ FixForwardReordered \/ Return

SpecReorder == Init /\ [][NextReorder]_vars

(***************************************************************************)
(* Similarity: cosine similarity over a temperature, and the same batch    *)
(* at two scales.  A score is kept exactly as its sign and its square.     *)
(***************************************************************************)
MaxScale == 3

\* eps * eps of nn.CosineSimilarity (eps = 1e-8), in the unit of the squared
\* product of two squared norms of the vectors below
CosEpsSq == 4

\* config.temperature, in tenths
TempTenths == {5, 10}

\* batches of short vectors, around the clamp of the cosine
SimFills == {"unit", "mix"}

Sign(x) == IF x > 0 THEN 1 ELSE IF x < 0 THEN -1 ELSE 0

\* the product of the squared norms, which cosine similarity clamps from below
NormProductSq(x, y) == Dot(x, x) * Dot(y, y)

\* x . y with no division by the norms
CosineSimilarityUnnormalised(x, y) ==
    [sign |-> Sign(Dot(x, y)), sq |-> Rat(Dot(x, y) * Dot(x, y), 1)]

\* nn.CosineSimilarity(dim=-1): x . y / sqrt(max(|x|^2 * |y|^2, eps^2))
CosineSimilarity(x, y) ==
    LET w12 == Dot(x, y)
        n12 == IF NormProductSq(x, y) < CosEpsSq THEN CosEpsSq ELSE NormProductSq(x, y)
    IN [sign |-> Sign(w12), sq |-> Rat(w12 * w12, n12)]

\* Similarity.forward on x of shape (bsz, 1, dim) and y of shape (1, n, dim)
SimilarityForward(temp, x, y) ==
    [i \in DOMAIN x |-> [j \in DOMAIN y |->
        LET c == CosineSimilarity(x[i], y[j])
        IN [sign |-> c.sign, sq |-> RatMul(c.sq, Rat(10 * 10, temp * temp))]]]

\* z1 = sequence_output.view(bsz, K, -1)[:, 0, :]
Z1(sequence_output, bsz, K) == [i \in 1..bsz |-> sequence_output[(i - 1) * K + 1]]

\* the rows taken sequence by sequence: all first candidates, then all
\* second candidates, ...
Z3ByCandidate(sequence_output, bsz, K) ==
    [n \in 1..(bsz * (K - 1)) |->
        sequence_output[((n - 1) % bsz) * K + ((n - 1) \div bsz) + 2]]

\* z3 = sequence_output.view(bsz, K, -1)[:, 1:, :] flattened to rows
Z3(sequence_output, bsz, K) ==
    [n \in 1..(bsz * (K - 1)) |->
        sequence_output[((n - 1) \div (K - 1)) * K + ((n - 1) % (K - 1)) + 2]]

\* every vector of the batch times c
Scale(c, t) == [r \in DOMAIN t |-> [j \in DOMAIN t[r] |-> c * t[r][j]]]

\* Similarity.forward on one batch at the scales a and b
SimilarityForwardScaled ==
    /\ pc = "idle"
    /\ \E bsz \in 1..MaxBsz, K \in 2..(MaxNegK + 1), fill \in SimFills, temp \in TempTenths :
         \E a \in 1..MaxScale, b \in 1..MaxScale :
           LET sequence_output == EntityRep(fill, bsz * K)
               x == Z1(sequence_output, bsz, K)
               y == Z3(sequence_output, bsz, K)
           IN /\ args' = [temp |-> temp, x |-> x, y |-> y, a |-> a, b |-> b]
              /\ ret' = [first  |-> SimilarityForward(temp, Scale(a, x), Scale(a, y)),
                         second |-> SimilarityForward(temp, Scale(b, x), Scale(b, y))]
    /\ head' = "Similarity"
    /\ pc' = "returned"

\* RobertaForMerge.forward on one batch at the scales a and b
MergeForwardScaled ==
    /\ pc = "idle"
    /\ \E bsz \in 1..MaxBsz, neg_K \in 1..MaxNegK, fill \in EntFills :
         \E a \in 1..MaxScale, b \in 1..MaxScale :
           LET entity_rep == EntityRep(fill, bsz * (neg_K + 2))
           IN /\ args' = [entity_rep |-> entity_rep, neg_K |-> neg_K, a |-> a, b |-> b]
              /\ ret' = [first  |-> MergeForwardResult(Scale(a, entity_rep), neg_K, FALSE, None),
                         second |-> MergeForwardResult(Scale(b, entity_rep), neg_K, FALSE, None)]
    /\ head' = "RobertaForMerge"
    /\ pc' = "returned"

NextScale == SimilarityForwardScaled \/ MergeForwardScaled \/ Return

SpecScale == Init /\ [][NextScale]_vars

(***************************************************************************)
(* RobertaForQuestionAnswering.forward.  start_positions and end_positions *)
(* are tensors of the caller; the result records what they hold after the  *)
(* call.                                                                   *)
(***************************************************************************)
QaFills == {"asc", "hot"}

\* start_logits, end_logits = logits.split(1, dim=-1), each squeezed
SplitLogits(logits, c) == [i \in DOMAIN logits |-> [q \in DOMAIN logits[i] |-> logits[i][q][c]]]

\* positions of shape (bsz,), or (bsz, 1) as on multi-GPU
QaPositions(first, bsz, extra_dim) ==
    [i \in 1..bsz |-> IF extra_dim THEN <<first + i - 1>> ELSE first + i - 1]

\* positions.squeeze(-1) when positions has more than one axis: a view of
\* the same storage
Squeeze(positions, extra_dim) ==
    [i \in DOMAIN positions |-> IF extra_dim THEN positions[i][1] ELSE positions[i]]

\* the tensor behind a squeezed view whose elements have become v
Unsqueeze(v, extra_dim) == [i \in DOMAIN v |-> IF extra_dim THEN <<v[i]>> ELSE v[i]]

\* positions.clamp_(lo, hi) through the squeezed view: what the caller's
\* tensor holds afterwards
ClampInPlace(positions, lo, hi, extra_dim) ==
    Unsqueeze([i \in DOMAIN positions |->
                  LET v == Squeeze(positions, extra_dim)[i]
                  IN IF v < lo THEN lo ELSE IF v > hi THEN hi ELSE v], extra_dim)

\* CrossEntropyLoss(ignore_index=ignored_index): the mean over the rows
\* whose target is not ignored_index, NaN (n = 0) when there is none
CrossEntropyIgnore(scores, labels, ignored_index) ==
    LET kept == SelectSeq([i \in DOMAIN scores |-> i], LAMBDA i : labels[i] # ignored_index)
    IN Mean([n \in DOMAIN kept |->
               [norm |-> ExpSum(scores[kept[n]]),
                score |-> ExpSum(<<At(scores[kept[n]], labels[kept[n]])>>), n |-> 1]])

QaForwardResult(logits, start_positions, end_positions, extra_dim) ==
    LET start_logits == SplitLogits(logits, 1)
        end_logits == SplitLogits(logits, 2)
        ignored_index == Len(start_logits[1])
    IN IF start_positions # None /\ end_positions # None
       THEN LET starts == ClampInPlace(start_positions, 0, ignored_index, extra_dim)
                ends == ClampInPlace(end_positions, 0, ignored_index, extra_dim)
                start_loss == CrossEntropyIgnore(start_logits, Squeeze(starts, extra_dim),
                                                 ignored_index)
                end_loss == CrossEntropyIgnore(end_logits, Squeeze(ends, extra_dim),
                                               ignored_index)
            IN [status |-> "ok", kind |-> "loss",
                total_loss |-> [half_sum |-> <<start_loss, end_loss>>],
                start_logits |-> start_logits, end_logits |-> end_logits,
                caller |-> [start_positions |-> starts, end_positions |-> ends]]
       ELSE [status |-> "ok", kind |-> "scores",
             start_logits |-> start_logits, end_logits |-> end_logits,
             caller |-> [start_positions |-> start_positions,
                         end_positions |-> end_positions]]

QaForward ==
    /\ pc = "idle"
    /\ \E bsz \in 1..MaxBsz, fill \in QaFills, extra_dim \in BOOLEAN,
          has_start \in BOOLEAN, has_end \in BOOLEAN :
         \E s0 \in (-2)..(SeqLen + 1), e0 \in (-2)..(SeqLen + 1) :
           LET logits == QaLogits(fill, bsz)
               start_positions == Opt(has_start, QaPositions(s0, bsz, extra_dim))
               end_positions == Opt(has_end, QaPositions(e0, bsz, extra_dim))
           IN /\ args' = [logits |-> logits, start_positions |-> start_positions,
                          end_positions |-> end_positions, extra_dim |-> extra_dim]
              /\ ret' = QaForwardResult(logits, start_positions, end_positions, extra_dim)
    /\ head' = "RobertaForQuestionAnswering"
    /\ pc' = "returned"

NextQa == QaForward \/ Return

SpecQa == Init /\ [][NextQa]_vars

(***************************************************************************)
(* RobertaForMaskedLM.forward.                                             *)
(***************************************************************************)
\* the ignore value that the docstring of masked_lm_labels names
DocIgnoreIndex == -100

\* the values a label can take: the two ignore values, the vocabulary and
\* the first index past it
MlmLabelValues == {DocIgnoreIndex, LmIgnoreIndex} \cup (0..Vocab)

\* masked_lm_labels of shape (bsz, seq_len): the first row as given, every
\* later row filled with one value
MlmLabels(bsz, first, rest) == [b \in 1..bsz |-> IF b = 1 THEN first ELSE [t \in 1..TokLen |-> rest]]

\* CrossEntropyLoss(ignore_index=-1) over prediction_scores.view(-1, vocab_size)
\* and masked_lm_labels.view(-1); a target that is neither -1 nor a class
\* index is out of bounds
MaskedLmForwardResult(masked_lm_labels) ==
    LET prediction_scores == Concat([b \in DOMAIN masked_lm_labels |->
                                [t \in 1..TokLen |-> Decoder(<<b, t - 1>>)]])
        labels == Concat(masked_lm_labels)
    IN IF masked_lm_labels = None
       THEN [status |-> "ok", kind |-> "scores"]
       ELSE IF \E n \in DOMAIN labels : labels[n] # LmIgnoreIndex /\ labels[n] \notin 0..(Vocab - 1)
       THEN [status |-> "IndexError"]
       ELSE [status |-> "ok", kind |-> "loss", prediction_scores |-> prediction_scores,
             masked_lm_loss |-> CrossEntropyIgnore(prediction_scores, labels, LmIgnoreIndex)]

MaskedLmForward ==
    /\ pc = "idle"
    /\ \E bsz \in 1..MaxBsz, first \in [1..TokLen -> MlmLabelValues], rest \in MlmLabelValues,
          has_labels \in BOOLEAN :
         LET masked_lm_labels == Opt(has_labels, MlmLabels(bsz, first, rest))
         IN /\ args' = [masked_lm_labels |-> masked_lm_labels]
            /\ ret' = MaskedLmForwardResult(masked_lm_labels)
    /\ head' = "RobertaForMaskedLM"
    /\ pc' = "returned"

NextMlm == MaskedLmForward \/ Return

SpecMlm == Init /\ [][NextMlm]_vars

(***************************************************************************)
(* RobertaForPair.forward: input_ids of shape (bsz, K, seq_len), one mask  *)
(* position per sequence, mlm_labels with one label per sequence.          *)
(***************************************************************************)
\* total_sequence_output[n, t]: the hidden state of token t of flat row n
PairHidden(fill, n, t) == [j \in 1..Dim |-> EntityCell(fill, n + t, j)]

\* self.lm_head.decoder on the hidden state of token t of flat row n; the
\* scores are 10 apart, so that a sum of fewer than exp(10) exponentials is
\* ordered by its largest exponents
PairDecoder(n, t) == [v \in 1..Vocab |-> 10 * Decoder(<<n, t>>)[v]]

\* the sum of exp over bag A is smaller than that over bag B, for exponents
\* that are at least 10 apart and counts below exp(10)
ExpSumLess(A, B) ==
    LET count(X, x) == IF x \in DOMAIN X THEN X[x] ELSE 0
    IN \E x \in DOMAIN A \cup DOMAIN B :
         /\ count(A, x) < count(B, x)
         /\ \A y \in DOMAIN A \cup DOMAIN B : y > x => count(A, y) = count(B, y)

\* CrossEntropyLoss(ignore_index=-1, reduce=False): one log-ratio per
\* sequence, 0 for an ignored label
TokenLoss(scores, label) ==
    IF label = LmIgnoreIndex THEN [norm |-> PolyOne, score |-> PolyOne, n |-> 1]
    ELSE [norm |-> ExpSum(scores), score |-> ExpSum(<<At(scores, label)>>), n |-> 1]

\* exp(loss) of a log-ratio, shifted to the score of the target
ShiftedNorm(l) ==
    LET t == CHOOSE x \in DOMAIN l.score : TRUE
    IN [x \in {y - t : y \in DOMAIN l.norm} |-> l.norm[x + t]]

\* (losses / tot).sum()
SumOverTot(losses, tot) == [Mean(losses) EXCEPT !.n = tot]

PairMlmPatterns == {"absent", "none", "all", "first"}

\* mlm_labels of shape (bsz, K)
PairMlmLabels(pat, bsz, K) ==
    [i \in 1..bsz |-> [k \in 1..K |->
        CASE pat = "none"  -> LmIgnoreIndex
          [] pat = "all"   -> (i + k) % Vocab
          [] pat = "first" -> IF i = 1 /\ k = 1 THEN 1 ELSE LmIgnoreIndex]]

\* loss and entity_loss are two names of one tensor (loss = entity_loss =
\* ...), and loss += ... adds to that tensor in place
PairForwardResult(fill, temp, calibration, num_m_prompt, bsz, K, mask_position, mlm_labels) ==
    LET sequence_output == [n \in 1..(bsz * K) |-> PairHidden(fill, n, mask_position[n])]
        z1 == Z1(sequence_output, bsz, K)
        z3 == Z3(sequence_output, bsz, K)
        cos_sim == SimilarityForward(temp, z1, z3)
        labels == [i \in 1..bsz |-> (i - 1) * (K - 1)]
        ce == [cross_entropy |-> [scores |-> cos_sim, labels |-> labels]]
        flat == Concat(mlm_labels)
        mlm_prediction == [n \in 1..(bsz * K) |-> PairDecoder(n, mask_position[n])]
        ori_mlm_prediction ==
            [n \in 1..(bsz * K) |-> PairDecoder(n, (mask_position[n] - num_m_prompt) % TokLen)]
        tot == Cardinality({n \in DOMAIN flat : flat[n] >= 0})
        record == [n \in DOMAIN flat |-> TokenLoss(mlm_prediction[n], flat[n])]
        ori == [n \in DOMAIN flat |-> TokenLoss(ori_mlm_prediction[n], flat[n])]
        \* mlm_loss[delta < 0] = 0
        zeroed == [n \in DOMAIN flat |->
                     IF ExpSumLess(ShiftedNorm(record[n]), ShiftedNorm(ori[n]))
                     THEN [norm |-> PolyOne, score |-> PolyOne, n |-> 1] ELSE record[n]]
        added == IF calibration THEN SumOverTot(zeroed, tot)
                 ELSE CrossEntropyIgnore(mlm_prediction, flat, LmIgnoreIndex)
        loss == IF mlm_labels = None THEN ce ELSE Plus(ce, added)
    IN [status |-> "ok", cos_sim |-> cos_sim, labels |-> labels,
        cross_entropy |-> ce, added |-> IF mlm_labels = None THEN None ELSE added,
        loss |-> loss, entity_loss |-> loss,
        mlm_loss |-> IF mlm_labels = None THEN 0
                     ELSE IF calibration THEN SumOverTot(record, tot) ELSE added,
        ori_mlm_loss |-> IF mlm_labels = None THEN 0
                         ELSE IF calibration THEN SumOverTot(ori, tot)
                         ELSE CrossEntropyIgnore(ori_mlm_prediction, flat, LmIgnoreIndex)]

PairForward ==
    /\ pc = "idle"
    /\ \E bsz \in 1..MaxBsz, K \in 2..(MaxNegK + 1), fill \in SimFills, temp \in TempTenths,
          calibration \in BOOLEAN, num_m_prompt \in 0..1 :
         \E first \in 0..(TokLen - 1), pat \in PairMlmPatterns :
           LET mask_position == [n \in 1..(bsz * K) |-> (first + n - 1) % TokLen]
               mlm_labels == IF pat = "absent" THEN None ELSE PairMlmLabels(pat, bsz, K)
           IN /\ args' = [fill |-> fill, temp |-> temp, calibration |-> calibration,
                          num_m_prompt |-> num_m_prompt, bsz |-> bsz, K |-> K,
                          mask_position |-> mask_position, mlm_labels |-> mlm_labels]
              /\ ret' = PairForwardResult(fill, temp, calibration, num_m_prompt, bsz, K,
                                          mask_position, mlm_labels)
    /\ head' = "RobertaForPair"
    /\ pc' = "returned"

NextPair == PairForward \/ Return

SpecPair == Init /\ [][NextPair]_vars

(***************************************************************************)
(* RobertaForLMQA.forward: input_ids of shape (bsz, num_cands, seq_len),   *)
(* flattened to bsz*num_cands encoder rows; PairHidden(fill, n, t) stands  *)
(* for the state of token t of flat row n after self.lm_head.              *)
(***************************************************************************)
NoValidPenalty == 10000

LmqaForwardResult(fill, temp, q_mask_position, cand_mask_position, answer_index) ==
    LET bsz == Len(cand_mask_position)
        num_cands == Len(cand_mask_position[1])
        \* sequence_output[torch.arange(bsz), q_mask_position]
        query_state == [i \in 1..bsz |-> PairHidden(fill, i, q_mask_position[i])]
        \* sequence_output[torch.arange(bsz*num_cands), cand_mask_position.view(-1)]
        flat == [n \in 1..(bsz * num_cands) |->
                   PairHidden(fill, n, Concat(cand_mask_position)[n])]
        cand_state == [i \in 1..bsz |-> [c \in 1..num_cands |-> flat[(i - 1) * num_cands + c]]]
        logits == [i \in 1..bsz |-> [c \in 1..num_cands |->
                     [sim |-> SimilarityForward(temp, <<query_state[i]>>, cand_state[i])[1][c],
                      minus |-> IF cand_mask_position[i][c] = 0 THEN NoValidPenalty ELSE 0]]]
    IN [status |-> "ok", query_row |-> [i \in 1..bsz |-> i - 1], logits |-> logits,
        loss |-> IF answer_index = None THEN None
                 ELSE [cross_entropy |-> [scores |-> logits, labels |-> answer_index]]]

LmqaForward ==
    /\ pc = "idle"
    /\ \E bsz \in 1..MaxBsz, num_cands \in 1..MaxNegK, fill \in SimFills, temp \in TempTenths,
          q0 \in 0..(TokLen - 1), c0 \in 0..(TokLen - 1), has_answer \in BOOLEAN :
         LET q_mask_position == [i \in 1..bsz |-> (q0 + i - 1) % TokLen]
             cand_mask_position ==
                 [i \in 1..bsz |-> [c \in 1..num_cands |-> (c0 + i + c) % TokLen]]
             answer_index == Opt(has_answer, [i \in 1..bsz |-> (i - 1) % num_cands])
         IN /\ args' = [fill |-> fill, temp |-> temp, q_mask_position |-> q_mask_position,
                        cand_mask_position |-> cand_mask_position,
                        answer_index |-> answer_index]
            /\ ret' = LmqaForwardResult(fill, temp, q_mask_position, cand_mask_position,
                                        answer_index)
    /\ head' = "RobertaForLMQA"
    /\ pc' = "returned"

NextLmqa == LmqaForward \/ Return

SpecLmqa == Init /\ [][NextLmqa]_vars

\* the two heads that score by translational distance
NextDistance == TransEForward \/ TogetherForward \/ Return

SpecDistance == Init /\ [][NextDistance]_vars

NextContrast == MergeForward \/ FixForward \/ TogetherForward \/ Return

SpecContrast == Init /\ [][NextContrast]_vars

(***************************************************************************)
(* Properties of the marginal span loss.                                   *)
(***************************************************************************)
Sides == {"start", "end"}

TriviaReturned == pc = "returned" /\ head = "RobertaForTriviaQuestionAnswering"

Column(side) == IF side = "start" THEN 1 ELSE 2

SideTarget(side) == IF side = "start" THEN args.start_positions ELSE args.end_positions

Slots(side) ==
    {<<e, s, k>> \in (1..args.bsz) \X (1..args.max_segment) \X (1..MaxTargets + 1) :
        k \in DOMAIN SideTarget(side)[e][s]}

SlotTarget(side, sl) == SideTarget(side)[sl[1]][sl[2]][sl[3]]

NumTargets(side) == Len(SideTarget(side)[1][1])

\* the logit the encoder row of segment s of example e holds at position p
EncoderLogit(side, e, s, p) == args.logits[(e - 1) * args.max_segment + s][p + 1][Column(side)]

\* the value a slot adds to the numerator of its example
Entering(side, sl) == ret[side].gathered_flat[sl[1]][(sl[2] - 1) * NumTargets(side) + sl[3]]

\* the exact sum of exp over the values of a function
BagOf(f) == [v \in Range(f) |-> Cardinality({x \in DOMAIN f : f[x] = v})]

AllIgnored(side, e) ==
    \A sl \in Slots(side) : sl[1] = e => SlotTarget(side, sl) = IgnoreIndex

TargetsUsable(side) ==
    \A sl \in Slots(side) :
        SlotTarget(side, sl) = IgnoreIndex \/ SlotTarget(side, sl) \in 0..(SeqLen - 1)

C4_FlattenedBeforeGather ==
    TriviaReturned =>
        \A side \in Sides :
            (\A sl \in Slots(side) :
                SlotTarget(side, sl) = IgnoreIndex
                \/ SlotTarget(side, sl) \in 0..(args.max_segment * SeqLen - 1))
            => /\ ret[side].status = "ok"
               /\ \A sl \in Slots(side) :
                    SlotTarget(side, sl) # IgnoreIndex =>
                        Entering(side, sl) =
                            EncoderLogit(side, sl[1], SlotTarget(side, sl) \div SeqLen + 1,
                                         SlotTarget(side, sl) % SeqLen)

\* C4 (amended): mask and gather act on the unflattened logits; the target
\* of slot (e, s, k) is a position of segment s itself, a target outside
\* [0, seq_len) raises, and the flattening to one row per example follows
\* the gather, row-major.
C4_GatherPerSegmentThenFlatten ==
    TriviaReturned =>
        \A side \in Sides :
            /\ ret[side].status = "ok" <=> TargetsUsable(side)
            /\ ret[side].status = "ok" =>
                 /\ \A sl \in Slots(side) :
                      /\ SlotTarget(side, sl) # IgnoreIndex =>
                           ret[side].gathered_logits[sl[1]][sl[2]][sl[3]] =
                               EncoderLogit(side, sl[1], sl[2], SlotTarget(side, sl))
                      /\ Entering(side, sl) = ret[side].gathered_logits[sl[1]][sl[2]][sl[3]]
                 /\ \A e \in 1..args.bsz, s \in 1..args.max_segment, p \in 0..(SeqLen - 1) :
                      ret[side].logits_flat[e][(s - 1) * SeqLen + p + 1] =
                          EncoderLogit(side, e, s, p)

\* a valid target in the second segment: it selects a logit of the second
\* segment, which differs from the one at the same flattened index
C4_Witness ==
    /\ TriviaReturned
    /\ ret.start.status = "ok"
    /\ args.max_segment = 2
    /\ \E sl \in Slots("start") :
         /\ sl[2] = 2
         /\ SlotTarget("start", sl) = 0
         /\ Entering("start", sl) = EncoderLogit("start", sl[1], 2, 0)
         /\ Entering("start", sl) # EncoderLogit("start", sl[1], 1, 0)

(***************************************************************************)
(* Properties of the contrastive heads.  The expected values are computed  *)
(* from the arguments of the call, row by row, and compared with what the  *)
(* head returned.                                                          *)
(***************************************************************************)
ContrastHeads == {"RobertaForMerge", "RobertaForFix", "RobertaForTogether"}

ContrastReturned == pc = "returned" /\ head \in ContrastHeads

\* the number of queries of the call
CallBsz ==
    IF head = "RobertaForTogether" THEN Len(args.lm_labels)
    ELSE Len(args.entity_rep) \div (args.neg_K + 2)

\* the number of rows after the queries and the positives
NumNegRows == Len(args.entity_rep) - 2 * CallBsz

QueryRow(i) == args.entity_rep[i]

PositiveRow(i) == args.entity_rep[CallBsz + i]

NegativeRow(j) == args.entity_rep[2 * CallBsz + j]

\* the score of query i against negative row j before any masking
RawScore(i, j) == Dot(QueryRow(i), NegativeRow(j))

ListwiseReturned == ContrastReturned /\ ret.status = "ok" /\ ret.kind = "listwise"

\* the in-batch regime with one identifier for every candidate row
InBatchListwise ==
    ListwiseReturned /\ args.in_batch /\ Len(args.neg_page_ids) = NumNegRows

Collided(i, j) == args.cur_page_ids[i] = args.neg_page_ids[j]

\* the cross entropy of the returned score matrix against column 0
LossOfReturnedScores ==
    Mean([i \in 1..CallBsz |->
            [norm |-> ExpSum(ret.scores[i]), score |-> ExpSum(<<ret.scores[i][1]>>),
             n |-> 1]])

\* C5 as stated: in the in-batch regime the entry of a candidate on the
\* page of the query equals the sentinel -10000 whatever its raw score
C5_CollidedEntryIsSentinel ==
    InBatchListwise =>
        \A i \in 1..CallBsz : \A j \in 1..NumNegRows :
            Collided(i, j) => ret.scores[i][1 + j] = 0 - InBatchPenalty

\* C5 amended: in the in-batch regime the entry (i, j) of a candidate on the
\* page of the query is its raw score minus 10000, the entry of any other
\* candidate is its raw score, and the loss is aggregated from these entries
C5_CollidedEntryIsRawMinusPenalty ==
    InBatchListwise =>
        /\ Len(ret.scores) = CallBsz
        /\ \A i \in 1..CallBsz :
             /\ Len(ret.scores[i]) = 1 + NumNegRows
             /\ \A j \in 1..NumNegRows :
                  ret.scores[i][1 + j] =
                      IF Collided(i, j) THEN RawScore(i, j) - InBatchPenalty
                      ELSE RawScore(i, j)
        /\ ret.ent_loss = LossOfReturnedScores

\* RobertaForFix in its in-batch regime: one candidate on the page of a
\* query with a non-zero raw score, another candidate on a different page
C5_Witness ==
    /\ InBatchListwise
    /\ head = "RobertaForFix"
    /\ \E i \in 1..CallBsz : \E j, k \in 1..NumNegRows :
         /\ Collided(i, j)
         /\ RawScore(i, j) # 0
         /\ ret.scores[i][1 + j] = RawScore(i, j) - InBatchPenalty
         /\ ~Collided(i, k)
         /\ ret.scores[i][1 + k] = RawScore(i, k)

\* a call that reached the slicing with an array of bsz*(K+2) rows
LayoutTaken ==
    /\ ContrastReturned
    /\ "query_rep" \in DOMAIN ret
    /\ CallBsz >= 1
    /\ Len(args.entity_rep) = CallBsz * (args.neg_K + 2)

\* C6: an array of bsz*(K+2) entity vectors is cut into the queries
\* [0:bsz], the positives [bsz:2*bsz] and the negatives [2*bsz:], of lengths
\* bsz, bsz and bsz*K, whose concatenation in that order is the array
C6_BatchLayout ==
    LayoutTaken =>
        /\ ret.bsz = CallBsz
        /\ Len(ret.query_rep) = CallBsz
        /\ Len(ret.pos_rep) = CallBsz
        /\ Len(ret.neg_rep) = CallBsz * args.neg_K
        /\ ret.query_rep \o ret.pos_rep \o ret.neg_rep = args.entity_rep
        /\ \A i \in 1..CallBsz :
             /\ ret.query_rep[i] = QueryRow(i)
             /\ ret.pos_rep[i] = PositiveRow(i)
        /\ \A j \in 1..NumNegRows : ret.neg_rep[j] = NegativeRow(j)

\* RobertaForTogether as constructed (p = 1, in-batch): two queries with two
\* negatives each, eight rows that are not all alike
C6_Witness ==
    /\ LayoutTaken
    /\ head = "RobertaForTogether"
    /\ args.p # None
    /\ args.in_batch
    /\ CallBsz = 2
    /\ args.neg_K = 2
    /\ Len(ret.neg_rep) = 4
    /\ ret.query_rep # ret.pos_rep
    /\ ret.status = "ok"

\* C7: in the listwise formulation the logits of every query are its
\* positive score followed by its negative scores, 1 + num_negatives wide
\* with the positive score in column 0, and the label of every query is 0
C7_ListwiseLogitsAndLabels ==
    ListwiseReturned =>
        LET num_negatives == IF args.in_batch THEN NumNegRows ELSE args.neg_K
        IN /\ Len(ret.scores) = CallBsz
           /\ Len(ret.labels) = CallBsz
           /\ \A i \in 1..CallBsz :
                /\ Len(ret.scores[i]) = 1 + num_negatives
                /\ ret.scores[i][1] = Dot(QueryRow(i), PositiveRow(i))
                /\ SubSeq(ret.scores[i], 2, 1 + num_negatives) = ret.neg_scores[i]
                /\ ret.labels[i] = 0
                /\ ~args.in_batch =>
                     \A k \in 1..args.neg_K :
                         ret.scores[i][1 + k] = RawScore(i, (i - 1) * args.neg_K + k)
           /\ ret.ent_loss =
                  Mean([i \in 1..CallBsz |->
                          [norm |-> ExpSum(ret.scores[i]),
                           score |-> ExpSum(<<At(ret.scores[i], ret.labels[i])>>),
                           n |-> 1]])
           /\ ret.ent_loss = LossOfReturnedScores

\* RobertaForMerge: two queries with two negatives each, where the positive
\* score of the second query differs from its first negative score
C7_Witness ==
    /\ ListwiseReturned
    /\ head = "RobertaForMerge"
    /\ CallBsz = 2
    /\ args.neg_K = 2
    /\ Len(ret.scores[2]) = 3
    /\ ret.scores[2][1] # ret.scores[2][2]
    /\ ret.labels = <<0, 0>>

\* a contrastive call of RobertaForMerge or RobertaForFix on a batch whose
\* number of rows is not bsz*(neg_K+2)
LeftoverRows ==
    /\ ContrastReturned
    /\ head \in {"RobertaForMerge", "RobertaForFix"}
    /\ args.lm_labels = None
    /\ ~args.is_eval
    /\ Len(args.entity_rep) # CallBsz * (args.neg_K + 2)

\* C12: RobertaForMerge and RobertaForFix reject a batch whose number of
\* rows is not bsz*(neg_K+2): they raise an error and return no loss for it
C12_LeftoverRowsRejected == LeftoverRows => ret.status # "ok"

\* a call of RobertaForTogether that went past the detach flag
TogetherSliced ==
    /\ pc = "returned"
    /\ head = "RobertaForTogether"
    /\ "requires_grad" \in DOMAIN ret

\* C11: the detach flag of RobertaForTogether controls gradient flow: when
\* it is set only the query vectors carry gradient, and when it is not set
\* the positive and negative vectors carry gradient as well
C11_DetachFlagControlsGradient ==
    TogetherSliced =>
        /\ ret.requires_grad.query_rep
        /\ args.is_detach => ~ret.requires_grad.pos_rep /\ ~ret.requires_grad.neg_rep
        /\ ~args.is_detach => ret.requires_grad.pos_rep /\ ret.requires_grad.neg_rep

(***************************************************************************)
(* Properties of the margin loss of RobertaForTransE.                      *)
(***************************************************************************)
TransEReturned == pc = "returned" /\ head = "RobertaForTransE"

TransELoss == TransEReturned /\ ret.status = "ok" /\ ret.kind = "loss"

Queries == 1..Len(args.e1_idx)

\* -log_sigmoid(x) = log(1 + exp(-x))
NegLogSigmoidAtom(x) == BagOf(<<0, 0 - x>>)

\* softmax(row)_k = exp(row_k - m) / sum_j exp(row_j - m), m the row maximum
SoftmaxWeight(row, k) ==
    LET m == CHOOSE x \in Range(row) : \A y \in Range(row) : y <= x
    IN [num |-> row[k] - m, den |-> BagOf([j \in DOMAIN row |-> row[j] - m])]

\* the positive terms sum_i coef[i] * -log_sigmoid(positive_score_i)
PositivePart(coef) ==
    [i \in {q \in Queries : coef[q][1] # 0} |->
        [c |-> coef[i], sm |-> [num |-> 0, den |-> BagOf(<<0>>)],
         atom |-> NegLogSigmoidAtom(ret.positive_score[i])]]

\* the negative terms
\* sum_i coef[i] * -sum_k softmax(negative_score_i)_k * log_sigmoid(-negative_score_ik)
NegativePart(coef) ==
    [x \in {y \in Queries \X (1..MaxNegK + 1) :
              y[2] \in DOMAIN ret.negative_score[y[1]] /\ coef[y[1]][1] # 0} |->
        [c |-> coef[x[1]], sm |-> SoftmaxWeight(ret.negative_score[x[1]], x[2]),
         atom |-> NegLogSigmoidAtom(0 - ret.negative_score[x[1]][x[2]])]]

Halved(coef) == [i \in DOMAIN coef |-> Rat(coef[i][1], 2 * coef[i][2])]

WeightSum == SumSeq(args.subsampling_weight)

\* the reduction coefficients: weight_i / sum(weight), or 1 / bsz
Coefficients ==
    IF args.subsampling_weight # None
    THEN [i \in Queries |-> Rat(args.subsampling_weight[i], WeightSum)]
    ELSE [i \in Queries |-> Rat(1, Len(args.e1_idx))]

IsScalar(x, part) == ~x.nan /\ x.terms = BagOf(part)

\* C8: the loss is (reduce(positive_term) + reduce(negative_term)) / 2 with
\* positive_term = -log_sigmoid(positive_score), negative_term =
\* -sum_k softmax(negative_score)_k * log_sigmoid(-negative_score_k), and
\* the same reduction for both terms.
C8_MarginLossIsHalfSum ==
    TransELoss =>
        IF args.subsampling_weight # None /\ WeightSum = 0
        THEN ret.out.loss.nan
        ELSE /\ ~ret.out.loss.nan
             /\ ret.out.loss.terms =
                    BagOf(PositivePart(Halved(Coefficients)))
                    (+) BagOf(NegativePart(Halved(Coefficients)))

\* a weighted loss over two queries with two negatives each
C8_Witness ==
    /\ TransELoss
    /\ args.subsampling_weight = <<1, 2>>
    /\ Len(ret.negative_score[1]) = 2
    /\ ret.negative_score[1][1] # ret.negative_score[1][2]
    /\ BagCardinality(ret.out.loss.terms) = 6

\* the negatives the mode reads are given
NegativesGiven ==
    IF args.relation_idx # None
    THEN args.neg_e1_idxs # None \/ args.neg_e2_idxs # None
    ELSE args.input_ids # None /\ args.neg_e2_idxs # None

ReductionsAsStated ==
    IF args.subsampling_weight # None /\ WeightSum = 0
    THEN ret.out.positive_sample_loss.nan /\ ret.out.negative_sample_loss.nan
    ELSE /\ IsScalar(ret.out.positive_sample_loss, PositivePart(Coefficients))
         /\ IsScalar(ret.out.negative_sample_loss, NegativePart(Coefficients))

\* C9 as stated: every call on a batch with negatives returns a scalar loss,
\* reduced by the weight sum when weights are given and by a plain mean when
\* not, in the knowledge-embedding mode and in the text mode.
C9_AlwaysScalarLoss ==
    (TransEReturned /\ NegativesGiven) =>
        /\ ret.status = "ok"
        /\ ret.kind = "loss"
        /\ ReductionsAsStated

\* C9 (amended): a scalar loss is returned when input_ids is given or a
\* subsampling weight is supplied; a call without input_ids and without
\* weights returns the (bsz, K) negative scores instead.
C9_ScalarLossUnlessScoresOnly ==
    TransEReturned =>
        /\ ret.status = "ok" <=> NegativesGiven
        /\ ret.status = "ok" =>
             IF args.input_ids = None /\ args.subsampling_weight = None
             THEN /\ ret.kind = "scores"
                  /\ DOMAIN ret.negative_score = Queries
                  /\ \A i \in Queries :
                       DOMAIN ret.negative_score[i] =
                           DOMAIN (IF args.neg_e1_idxs # None THEN args.neg_e1_idxs
                                   ELSE args.neg_e2_idxs)[i]
             ELSE /\ ret.kind = "loss"
                  /\ ReductionsAsStated

\* an unweighted loss in the text mode, by plain mean over two queries
C9_Witness ==
    /\ TransELoss
    /\ args.input_ids # None
    /\ args.relation_idx = None
    /\ args.subsampling_weight = None
    /\ Len(args.e1_idx) = 2
    /\ \E x \in DOMAIN ret.out.positive_sample_loss.terms : x.c = <<1, 2>>

ConstantWeights(c) ==
    /\ args.subsampling_weight # None
    /\ \A i \in Queries : args.subsampling_weight[i] = c

PlainMean == [i \in Queries |-> Rat(1, Len(args.e1_idx))]

EqualsPlainMeanLoss ==
    /\ ~ret.out.loss.nan
    /\ ret.out.loss.terms =
           BagOf(PositivePart(Halved(PlainMean))) (+) BagOf(NegativePart(Halved(PlainMean)))

\* C10 as stated: weights all equal to any non-negative constant give the
\* loss of the unweighted plain mean.
C10_ConstantWeightsAnyNonNegative ==
    TransELoss =>
        \A c \in 0..(MaxWeight + 1) : ConstantWeights(c) => EqualsPlainMeanLoss

\* C10 for the constants whose sum is not zero: weights all equal to a
\* positive constant give the loss of the unweighted plain mean.
C10_ConstantPositiveWeights ==
    TransELoss =>
        \A c \in 1..(MaxWeight + 1) : ConstantWeights(c) => EqualsPlainMeanLoss

\* two queries, both of weight 2
C10_Witness ==
    /\ TransELoss
    /\ ConstantWeights(2)
    /\ Len(args.e1_idx) = 2
    /\ EqualsPlainMeanLoss

\* C13: no loss is returned when the positive scores and the negative
\* scores disagree on the batch dimension: a loss comes only from score
\* tensors with the same number of rows
C13_NoLossOnBatchMismatch ==
    (TransELoss /\ ~ret.out.loss.nan) =>
        Len(ret.negative_score) = Len(ret.positive_score)

(***************************************************************************)
(* Properties of the listwise loss under a reordering of the negatives.    *)
(***************************************************************************)
ReorderReturned ==
    /\ pc = "returned"
    /\ head \in {"RobertaForMerge", "RobertaForFix"}
    /\ ret.first.status = "ok"

\* the negative row of position x stays with the query it was drawn for
KeepsQueryBlocks ==
    \A x \in DOMAIN args.perm : (args.perm[x] - 1) \div args.neg_K = (x - 1) \div args.neg_K

SameLoss == ret.second.status = "ok" /\ ret.second.ent_loss = ret.first.ent_loss

\* C14 as stated: the listwise loss is the same after every reordering of
\* the rows of the negative slice, in the explicit and the in-batch regime
C14_AnyReorderingKeepsLoss == ReorderReturned => SameLoss

\* C14 amended: the listwise loss is the same after every reordering of the
\* negative rows in the in-batch regime (identifiers moved along), and in
\* the explicit regime after every reordering that leaves each row among
\* the neg_K rows of its own query
C14_ReorderingWithinQueryKeepsLoss ==
    (ReorderReturned /\ (args.in_batch \/ KeepsQueryBlocks)) => SameLoss

\* RobertaForMerge, two negatives of the second query exchanged: the scores
\* of that query change places and the loss stays
C14_Witness ==
    /\ ReorderReturned
    /\ head = "RobertaForMerge"
    /\ KeepsQueryBlocks
    /\ args.reordered # args.entity_rep
    /\ Len(ret.first.scores) = 2
    /\ ret.second.scores[2] # ret.first.scores[2]
    /\ SameLoss

(***************************************************************************)
(* Properties of the marginal span loss with one and with two gold         *)
(* positions.  Sums of exponentials are compared after cancelling what     *)
(* they have in common.                                                    *)
(***************************************************************************)
\* sum of exp over bag A is greater than sum of exp over bag B
SumGreater(A, B) ==
    LET onlyA == A (-) B
        onlyB == B (-) A
    IN /\ onlyA # EmptyBag
       /\ \/ onlyB = EmptyBag
          \/ /\ BagCardinality(onlyA) >= BagCardinality(onlyB)
             /\ \A x \in DOMAIN onlyA : \A y \in DOMAIN onlyB : x > y

GoldPairReturned ==
    /\ pc = "returned"
    /\ head = "or_softmax_cross_entropy_loss_one_doc"
    /\ ret.both.status = "ok"
    /\ ret.single.status = "ok"

\* the logit at the gold position that the second target row leaves out
AddedLogit == At(args.logits[args.e][args.added[1][1]], args.added[2])

\* the loss of the example with both positions is the lower one: the same
\* normalizer and a greater numerator
TwoGoldLower ==
    /\ ret.both.loss[args.e].norm = ret.single.loss[args.e].norm
    /\ SumGreater(ret.both.loss[args.e].score, ret.single.loss[args.e].score)

TwoGoldHigher ==
    /\ ret.both.loss[args.e].norm = ret.single.loss[args.e].norm
    /\ SumGreater(ret.single.loss[args.e].score, ret.both.loss[args.e].score)

ValidSlots(side, e) ==
    {sl \in Slots(side) : sl[1] = e /\ SlotTarget(side, sl) # IgnoreIndex}

IgnoredSlots(side, e) ==
    {sl \in Slots(side) : sl[1] = e /\ SlotTarget(side, sl) = IgnoreIndex}

OneGold(side, e) == ret[side].status = "ok" /\ Cardinality(ValidSlots(side, e)) = 1

\* logits[t] of the single gold slot
GoldLogit(side, e) ==
    LET sl == CHOOSE x \in ValidSlots(side, e) : TRUE
    IN EncoderLogit(side, sl[1], sl[2], SlotTarget(side, sl))

\* the float32 logsumexp of the terms of a bag is v itself: v is its
\* largest term and every other term underflows against it
RoundsTo(bag, v) ==
    /\ v \in DOMAIN bag
    /\ bag[v] = 1
    /\ \A x \in DOMAIN bag : x # v => x < v - ExpUnderflow

C17_SelfAdversarialWeightsAreSoftmax ==
    TransELoss =>
        \A i \in DOMAIN ret.negative_score :
            LET w   == ret.neg_weights[i]
                row == ret.negative_score[i]
            IN /\ DOMAIN w = DOMAIN row
               /\ \A k \in DOMAIN w :
                    /\ w[k].den # EmptyBag
                    /\ w[k].den = ExpSum([j \in DOMAIN w |-> w[j].num])
                    /\ \A j \in DOMAIN w :
                         w[k].num - w[j].num = (row[k] - row[j]) * AdvTemperature

\* two queries whose rows of two negatives get different weights
C17_Witness ==
    /\ TransELoss
    /\ Len(ret.negative_score) = 2
    /\ Len(ret.negative_score[1]) = 2
    /\ ret.neg_weights[1][1].num # ret.neg_weights[1][2].num
    /\ ret.neg_weights[1] # ret.neg_weights[2]
    /\ ret.neg_weights[1][1].den = ExpSum(<<ret.neg_weights[1][1].num, ret.neg_weights[1][2].num>>)

(***************************************************************************)
(* Scores of one batch at two scales.                                      *)
(***************************************************************************)
ScaledSimilarity == pc = "returned" /\ head = "Similarity"

ScaledMerge == pc = "returned" /\ head = "RobertaForMerge" /\ "a" \in DOMAIN args

\* the pair (x_i, y_j) is above the clamp of the cosine at the scale c
Unclamped(c, i, j) ==
    NormProductSq(Scale(c, args.x)[i], Scale(c, args.y)[j]) >= CosEpsSq

\* the rational p is smaller than the rational q
RatLess(p, q) == p[1] * q[2] < q[1] * p[2]

\* the dot-product scores at scale b are (b / a)^2 times those at scale a
DotScoresProportional ==
    ScaledMerge =>
        /\ ret.first.status = "ok" /\ ret.second.status = "ok"
        /\ \A i \in DOMAIN ret.first.scores : \A j \in DOMAIN ret.first.scores[i] :
             ret.second.scores[i][j] * args.a * args.a
                 = ret.first.scores[i][j] * args.b * args.b

\* C18 as stated: every cosine score is the same at both scales, for all
\* vectors, and the dot-product scores change by one factor
C18_ScalingKeepsCosine ==
    /\ ScaledSimilarity => ret.second = ret.first
    /\ DotScoresProportional

\* C18: scaling every vector by c > 0 keeps a cosine score when the product
\* of the two norms is at least eps at both scales; a non-zero score that
\* is clamped at the smaller scale is smaller in magnitude there; every
\* dot-product score is multiplied by c * c
C18_ScalingKeepsCosineAboveEps ==
    /\ ScaledSimilarity =>
          \A i \in DOMAIN args.x : \A j \in DOMAIN args.y :
            /\ (Unclamped(args.a, i, j) /\ Unclamped(args.b, i, j))
                  => ret.second[i][j] = ret.first[i][j]
            /\ (args.a < args.b /\ ~Unclamped(args.a, i, j) /\ ret.first[i][j].sign # 0)
                  => /\ ret.second[i][j].sign = ret.first[i][j].sign
                     /\ RatLess(ret.first[i][j].sq, ret.second[i][j].sq)
    /\ DotScoresProportional

\* a batch doubled, with one pair above the clamp at both scales and one
\* pair below it at the smaller scale
C18_Witness ==
    /\ ScaledSimilarity
    /\ args.a = 1 /\ args.b = 2
    /\ \E i \in DOMAIN args.x : \E j \in DOMAIN args.y :
         /\ Unclamped(1, i, j)
         /\ ret.first[i][j].sign # 0
         /\ ret.second[i][j] = ret.first[i][j]
    /\ \E i \in DOMAIN args.x : \E j \in DOMAIN args.y :
         /\ ~Unclamped(1, i, j)
         /\ ret.second[i][j] # ret.first[i][j]

(***************************************************************************)
(* Translational-distance scores of RobertaForTransE and                   *)
(* RobertaForTogether, recomputed from the inputs of the call.             *)
(***************************************************************************)
\* gamma - || a + r - b ||_1
Distance(gamma, a, r, b) ==
    gamma - SumSeq([j \in 1..Dim |-> Abs(a[j] + r[j] - b[j])])

ZeroVector == [j \in 1..Dim |-> 0]

TransEScored == TransEReturned /\ ret.status = "ok"

HeadOf(i) == EntEmbeddings(args.tbl, args.e1_idx[i])

TailOf(i) == EntEmbeddings(args.tbl, args.e2_idx[i])

\* the relation vector of triple i: the embedding of relation_idx, or the
\* scaled relation head of the encoded text
RelationOf(i) ==
    IF args.relation_idx # None THEN RelEmbeddings(args.tbl, args.relation_idx[i])
    ELSE [j \in 1..Dim |-> (BertCoefPercent * RelHead(args.tbl, args.input_ids[i])[j]) \div 100]

HeadCorrupted(i, k) ==
    Distance(TransEGamma, EntEmbeddings(args.tbl, args.neg_e1_idxs[i][k]), RelationOf(i), TailOf(i))

TailCorrupted(i, k) ==
    Distance(TransEGamma, HeadOf(i), RelationOf(i), EntEmbeddings(args.tbl, args.neg_e2_idxs[i][k]))

\* one score per (query, negative) pair of the index tensor negs
OnePerPair(negs) ==
    /\ DOMAIN ret.negative_score = DOMAIN negs
    /\ \A i \in DOMAIN negs : DOMAIN ret.negative_score[i] = DOMAIN negs[i]

PositiveIsDistance ==
    (TransEScored /\ ret.kind = "loss") =>
        /\ DOMAIN ret.positive_score = DOMAIN args.e1_idx
        /\ \A i \in DOMAIN args.e1_idx :
             ret.positive_score[i] = Distance(TransEGamma, HeadOf(i), RelationOf(i), TailOf(i))

TogetherMargin ==
    /\ pc = "returned" /\ head = "RobertaForTogether"
    /\ ret.status = "ok" /\ ret.kind = "margin"

\* RobertaForTogether scores with no relation vector
TogetherIsDistance ==
    TogetherMargin =>
        /\ \A i \in 1..ret.bsz :
             ret.positive_score[i]
                 = Distance(TogetherGamma, args.entity_rep[i], ZeroVector,
                            args.entity_rep[ret.bsz + i])
        /\ \A i \in 1..ret.bsz : \A k \in DOMAIN ret.negative_score[i] :
             ret.negative_score[i][k]
                 = Distance(TogetherGamma, args.entity_rep[i], ZeroVector,
                            args.entity_rep[2 * ret.bsz
                                + (IF args.in_batch THEN k ELSE (i - 1) * args.neg_K + k)])
        /\ \A i \in 1..ret.bsz :
             Len(ret.negative_score[i])
                 = (IF args.in_batch THEN ret.bsz * args.neg_K ELSE args.neg_K)

\* C19 as stated: the negatives of RobertaForTransE are corrupted heads
\* whenever neg_e1_idxs is given, corrupted tails otherwise
C19_HeadsWheneverGiven ==
    /\ PositiveIsDistance
    /\ TransEScored =>
          IF args.neg_e1_idxs # None
          THEN /\ OnePerPair(args.neg_e1_idxs)
               /\ \A i \in DOMAIN args.neg_e1_idxs : \A k \in DOMAIN args.neg_e1_idxs[i] :
                    ret.negative_score[i][k] = HeadCorrupted(i, k)
          ELSE /\ OnePerPair(args.neg_e2_idxs)
               /\ \A i \in DOMAIN args.neg_e2_idxs : \A k \in DOMAIN args.neg_e2_idxs[i] :
                    ret.negative_score[i][k] = TailCorrupted(i, k)
    /\ TogetherIsDistance

\* C19: RobertaForTransE scores the positive triple as gamma - |h + r - t|_1;
\* with relation_idx and neg_e1_idxs given each negative is
\* gamma - |h' + r - t|_1; in every other scored call, the text mode with
\* neg_e1_idxs given included, it is gamma - |h + r - t'|_1 over neg_e2_idxs;
\* there is one score per (query, negative) pair; RobertaForTogether scores
\* gamma - |q - c|_1
C19_HeadsOnlyWithRelationIdx ==
    /\ PositiveIsDistance
    /\ TransEScored =>
          IF args.relation_idx # None /\ args.neg_e1_idxs # None
          THEN /\ OnePerPair(args.neg_e1_idxs)
               /\ \A i \in DOMAIN args.neg_e1_idxs : \A k \in DOMAIN args.neg_e1_idxs[i] :
                    ret.negative_score[i][k] = HeadCorrupted(i, k)
          ELSE /\ OnePerPair(args.neg_e2_idxs)
               /\ \A i \in DOMAIN args.neg_e2_idxs : \A k \in DOMAIN args.neg_e2_idxs[i] :
                    ret.negative_score[i][k] = TailCorrupted(i, k)
    /\ TogetherIsDistance

\* a text-mode call given both corrupted heads and corrupted tails, whose
\* first negative is scored as a corrupted tail and not as a corrupted head
C19_Witness ==
    /\ TransEScored
    /\ ret.kind = "loss"
    /\ args.relation_idx = None
    /\ args.neg_e1_idxs # None
    /\ ret.negative_score[1][1] = TailCorrupted(1, 1)
    /\ ret.negative_score[1][1] # HeadCorrupted(1, 1)

(***************************************************************************)
(* The tensors of the caller after a call.                                 *)
(***************************************************************************)
QaReturned == pc = "returned" /\ head = "RobertaForQuestionAnswering"

\* C20: a forward / loss call leaves every tensor the caller supplied as it
\* was: the start and end positions given to RobertaForQuestionAnswering
\* hold after the call the values they held before it
C20_CallerTensorsUnchanged ==
    QaReturned =>
        /\ ret.caller.start_positions = args.start_positions
        /\ ret.caller.end_positions = args.end_positions

\* a call with both positions given, one of them outside the sequence
C20_Witness ==
    /\ QaReturned
    /\ ret.kind = "loss"
    /\ \E i \in DOMAIN args.start_positions :
         Squeeze(args.start_positions, args.extra_dim)[i] > SeqLen

(***************************************************************************)
(* Positions outside the sequence in RobertaForQuestionAnswering.          *)
(***************************************************************************)
QaLoss == QaReturned /\ ret.kind = "loss"

\* the mean cross-entropy over the rows whose position p of the caller lies
\* in [0, sequence_length)
InsideLoss(logits, positions) ==
    LET p == Squeeze(positions, args.extra_dim)
        inside == SelectSeq([i \in DOMAIN logits |-> i],
                            LAMBDA i : p[i] >= 0 /\ p[i] < Len(logits[i]))
    IN Mean([n \in DOMAIN inside |->
               [norm |-> ExpSum(logits[inside[n]]),
                score |-> ExpSum(<<logits[inside[n]][p[inside[n]] + 1]>>), n |-> 1]])

\* C21: a start or end position outside the sequence (p < 0 or
\* p >= sequence_length) adds nothing to the loss; the start and the end
\* loss are the cross-entropies of the positions inside [0, sequence_length)
C21_OutsidePositionsIgnored ==
    QaLoss =>
        /\ ret.total_loss.half_sum[1] = InsideLoss(ret.start_logits, args.start_positions)
        /\ ret.total_loss.half_sum[2] = InsideLoss(ret.end_logits, args.end_positions)

\* a call whose first start position is negative
C21_Witness ==
    /\ QaLoss
    /\ Squeeze(args.start_positions, args.extra_dim)[1] < 0

(***************************************************************************)
(* Ignored labels of RobertaForMaskedLM.                                   *)
(***************************************************************************)
MlmCalled == pc = "returned" /\ head = "RobertaForMaskedLM" /\ args.masked_lm_labels # None

\* the mean cross-entropy over the tokens whose label is a class index
LabelledLoss(labels) ==
    LET flat == Concat(labels)
        kept == SelectSeq([n \in DOMAIN flat |-> n], LAMBDA n : flat[n] \in 0..(Vocab - 1))
    IN Mean([n \in DOMAIN kept |->
               LET scores == Decoder(<<(kept[n] - 1) \div TokLen + 1, (kept[n] - 1) % TokLen>>)
               IN [norm |-> ExpSum(scores), score |-> ExpSum(<<scores[flat[kept[n]] + 1]>>),
                   n |-> 1]])

\* C22: tokens labelled -100 are ignored and the loss is computed over the
\* tokens whose label is in [0, vocab_size)
C22_MinusHundredIgnored ==
    (MlmCalled /\ \A b \in DOMAIN args.masked_lm_labels :
                    \A t \in DOMAIN args.masked_lm_labels[b] :
                      args.masked_lm_labels[b][t] \in {DocIgnoreIndex} \cup (0..(Vocab - 1)))
        => /\ ret.status = "ok"
           /\ ret.masked_lm_loss = LabelledLoss(args.masked_lm_labels)

\* a call with one token labelled -100 and one labelled with a class
C22_Witness ==
    /\ MlmCalled
    /\ args.masked_lm_labels[1][1] = DocIgnoreIndex
    /\ args.masked_lm_labels[1][2] = 0

(***************************************************************************)
(* The explicit negative regime.                                           *)
(***************************************************************************)
ExplicitScored ==
    /\ ContrastReturned
    /\ ret.status = "ok"
    /\ ret.kind \in {"listwise", "margin"}
    /\ ~args.in_batch

\* the negative score matrix of the call
NegativeMatrix == IF ret.kind = "listwise" THEN ret.neg_scores ELSE ret.negative_score

\* the score of query i against the row j after the positives
PairScore(i, j) ==
    IF ret.kind = "listwise" THEN RawScore(i, j)
    ELSE Distance(TogetherGamma, QueryRow(i), ZeroVector, NegativeRow(j))

\* C23: in the explicit regime the negative scores have shape (bsz, K), and
\* entry (i, k), counted from 0, scores query i against the flat batch row
\* 2*bsz + i*K + k, a negative of query i and of no other query
C23_ExplicitNegativesOwnBlock ==
    ExplicitScored =>
        /\ NumNegRows = CallBsz * args.neg_K
        /\ Len(NegativeMatrix) = CallBsz
        /\ \A i \in 1..CallBsz :
             /\ Len(NegativeMatrix[i]) = args.neg_K
             /\ \A k \in 1..args.neg_K :
                  NegativeMatrix[i][k] = PairScore(i, (i - 1) * args.neg_K + k)

\* RobertaForMerge with two queries of two negatives each, where the first
\* negative of the second query scores differently from the first negative
\* of the first query
C23_Witness ==
    /\ ExplicitScored
    /\ head = "RobertaForMerge"
    /\ CallBsz = 2 /\ args.neg_K = 2
    /\ ret.neg_scores[2][1] = RawScore(2, 3)
    /\ ret.neg_scores[2][1] # RawScore(2, 1)

(***************************************************************************)
(* The in-batch margin branch of RobertaForTogether.                       *)
(***************************************************************************)
InBatchMargin ==
    TogetherMargin /\ args.in_batch /\ Len(args.neg_page_ids) = NumNegRows

\* the (query, candidate) pairs that are not on the same page
NonColliding ==
    {ij \in (1..CallBsz) \X (1..NumNegRows) : ~Collided(ij[1], ij[2])}

\* -log_sigmoid(-(gamma - |q_i - n_j|_1)) over the number of non-colliding
\* pairs: the term log(1 + exp(score)) with the coefficient 1 / count
PairTerm(ij) ==
    [c |-> Rat(1, Cardinality(NonColliding)), sm |-> SoftmaxOne,
     atom |-> ExpSum(<<0, Distance(TogetherGamma, QueryRow(ij[1]), ZeroVector,
                                    NegativeRow(ij[2]))>>)]

\* the sum of the terms of the non-colliding pairs and of nothing else
NonCollidingSum ==
    [nan |-> FALSE,
     terms |-> [x \in {PairTerm(ij) : ij \in NonColliding} |->
                  Cardinality({ij \in NonColliding : PairTerm(ij) = x})]]

\* C24: in the in-batch margin branch a pair on the same page adds exactly
\* zero to the negative term, every other pair adds
\* -log_sigmoid(-(gamma - |q_i - n_j|_1)), and the sum is divided by the
\* number of non-colliding pairs
C24_CollidingPairsAddZero ==
    InBatchMargin => ret.negative_sample_loss = NonCollidingSum

\* the same with at least one pair that does not collide
C24_WithOnePairLeft ==
    (InBatchMargin /\ NonColliding # {}) => ret.negative_sample_loss = NonCollidingSum

\* every candidate is on the page of every query
C24_Witness ==
    /\ InBatchMargin
    /\ NonColliding = {}

(***************************************************************************)
(* Normalizers of the losses.                                              *)
(***************************************************************************)
\* C25: no loss divides by zero on a well-shaped batch: the margin loss of
\* RobertaForTransE is a number whatever the subsampling weights, all zero
\* included, and the margin loss of RobertaForTogether is a number whatever
\* the pages, every candidate colliding with every query included
C25_NormalizersNeverZero ==
    /\ TransELoss => ~ret.out.loss.nan
    /\ TogetherMargin => ~ret.ent_loss.nan

\* a well-shaped call of RobertaForTransE whose subsampling weights are
\* all zero
C25_Witness ==
    /\ TransELoss
    /\ args.subsampling_weight # None
    /\ \A i \in DOMAIN args.subsampling_weight : args.subsampling_weight[i] = 0
    /\ Len(ret.negative_score) = Len(args.e1_idx)

(***************************************************************************)
(* The losses that RobertaForPair returns.                                 *)
(***************************************************************************)
PairReturned == pc = "returned" /\ head = "RobertaForPair"

\* C26: the returned entity_loss is the contrastive cross-entropy alone;
\* with mlm_labels given the returned loss is that cross-entropy plus the
\* MLM term, and this addition leaves entity_loss as it was
C26_EntityLossIsCrossEntropyAlone ==
    PairReturned =>
        /\ ret.entity_loss = ret.cross_entropy
        /\ args.mlm_labels # None => ret.loss = Plus(ret.entity_loss, ret.added)

\* a call with a labelled sequence, whose MLM term is added to the loss
C26_Witness ==
    /\ PairReturned
    /\ args.mlm_labels # None
    /\ \E i \in DOMAIN args.mlm_labels : \E k \in DOMAIN args.mlm_labels[i] :
         args.mlm_labels[i][k] >= 0
    /\ ret.loss = Plus(ret.cross_entropy, ret.added)

(***************************************************************************)
(* The score matrix and the labels of RobertaForPair.                      *)
(***************************************************************************)
\* the hidden state at the mask position of sequence k of example e, both
\* counted from 0
PairState(e, k) ==
    PairHidden(args.fill, e * args.K + k + 1, args.mask_position[e * args.K + k + 1])

\* cos(x, y) / temp
CosineScore(x, y) ==
    [sign |-> CosineSimilarity(x, y).sign,
     sq |-> RatMul(CosineSimilarity(x, y).sq, Rat(10 * 10, args.temp * args.temp))]

\* C30: the score matrix has shape (bsz, bsz*(K-1)); column e*(K-1) + (k-1)
\* of row i is the cosine score of sequence 0 of example i against sequence
\* k of example e; the label of query i is i*(K-1), the column of sequence 1
\* of its own example, a valid column that no other query has as label
C30_PairColumnsAndLabels ==
    PairReturned =>
        /\ Len(ret.cos_sim) = args.bsz
        /\ Len(ret.labels) = args.bsz
        /\ \A i \in 0..(args.bsz - 1) :
             /\ Len(ret.cos_sim[i + 1]) = args.bsz * (args.K - 1)
             /\ \A e \in 0..(args.bsz - 1) : \A k \in 1..(args.K - 1) :
                  At(ret.cos_sim[i + 1], e * (args.K - 1) + (k - 1))
                      = CosineScore(PairState(i, 0), PairState(e, k))
             /\ ret.labels[i + 1] = i * (args.K - 1)
             /\ ret.labels[i + 1] \in 0..(args.bsz * (args.K - 1) - 1)
             /\ At(ret.cos_sim[i + 1], ret.labels[i + 1])
                      = CosineScore(PairState(i, 0), PairState(i, 1))
             /\ \A e \in 0..(args.bsz - 1) : e # i => ret.labels[e + 1] # ret.labels[i + 1]

\* two examples of three sequences each, where the gold score of the second
\* query differs from its score against sequence 1 of the first example
C30_Witness ==
    /\ PairReturned
    /\ args.bsz = 2 /\ args.K = 3
    /\ ret.labels = <<0, 2>>
    /\ At(ret.cos_sim[2], 2) # At(ret.cos_sim[2], 0)
    /\ At(ret.cos_sim[2], 1) # At(ret.cos_sim[2], 2)

(***************************************************************************)
(* The sign of the per-example marginal span loss.                         *)
(***************************************************************************)
\* C27: the per-example marginal span loss is never negative: for every
\* logits row and every target row, repeated indices and logits below the
\* sentinel included, the numerator logsumexp(gathered) does not exceed the
\* denominator logsumexp(logits)
C27_SpanLossNeverNegative ==
    TriviaReturned =>
        \A side \in Sides :
            ret[side].status = "ok" =>
                \A e \in 1..args.bsz :
                    ~SumGreater(ret[side].log_score[e], ret[side].log_norm[e])

\* a target row that names the same position of the same segment twice,
\* with a numerator above the denominator
C27_Witness ==
    /\ TriviaReturned
    /\ ret.start.status = "ok"
    /\ \E a \in Slots("start"), b \in Slots("start") :
         /\ a # b
         /\ a[1] = b[1] /\ a[2] = b[2]
         /\ SlotTarget("start", a) # IgnoreIndex
         /\ SlotTarget("start", a) = SlotTarget("start", b)
         /\ SumGreater(ret.start.log_score[a[1]], ret.start.log_norm[a[1]])

(***************************************************************************)
(* The query state of RobertaForLMQA.                                      *)
(***************************************************************************)
LmqaReturned == pc = "returned" /\ head = "RobertaForLMQA"

NumCands == Len(args.cand_mask_position[1])

\* the flat encoder rows of example i, counted from 0
RowsOfExample(i) == (i * NumCands)..((i + 1) * NumCands - 1)

\* C28: for every example i the query state is read from a flat encoder
\* row of example i, in [i*num_cands, (i+1)*num_cands), at token
\* q_mask_position[i]; logits[i, c] is the similarity of that state and the
\* state of candidate c of example i, lowered by 10000 exactly when
\* cand_mask_position[i, c] = 0
C28_QueryStateOfOwnExample ==
    LmqaReturned =>
        \A i \in 0..(Len(args.cand_mask_position) - 1) :
            /\ ret.query_row[i + 1] \in RowsOfExample(i)
            /\ \E r \in RowsOfExample(i) : \A c \in 1..NumCands :
                 /\ ret.logits[i + 1][c].sim
                       = CosineScore(PairHidden(args.fill, r + 1, args.q_mask_position[i + 1]),
                                     PairHidden(args.fill, i * NumCands + c,
                                                args.cand_mask_position[i + 1][c]))
                 /\ ret.logits[i + 1][c].minus
                       = (IF args.cand_mask_position[i + 1][c] = 0 THEN 10000 ELSE 0)

\* two examples of two candidates each: the second query state is read
\* from flat row 1, a row of the first example
C28_Witness ==
    /\ LmqaReturned
    /\ Len(args.cand_mask_position) = 2
    /\ NumCands = 2
    /\ ret.query_row[2] = 1
    /\ ret.query_row[2] \notin RowsOfExample(1)

(***************************************************************************)
(* The masked-LM term of RobertaForTogether.                               *)
(***************************************************************************)
TogetherLoss ==
    /\ pc = "returned" /\ head = "RobertaForTogether"
    /\ ret.status = "ok" /\ ret.kind \in {"listwise", "margin"}

\* the flat indexes b*seq_len + t of the labelled tokens
LabelledIndexes ==
    {b * TokLen + t : b \in 0..(Len(args.lm_labels) - 1), t \in 0..(TokLen - 1)}
        \cap {x \in 0..(Len(args.lm_labels) * TokLen - 1) :
                 args.lm_labels[(x \div TokLen) + 1][(x % TokLen) + 1] # LmIgnoreIndex}

\* C29: the masked-LM loss of RobertaForTogether is computed over exactly
\* the positions (b, t) with lm_labels[b, t] # -1; flat index b*seq_len + t
\* selects the state of token t of MLM sequence b < bsz and no token of an
\* entity row; no selected target is the ignore index; the first returned
\* value is ent_loss + masked_lm_loss
C29_MlmOverLabelledTokens ==
    TogetherLoss =>
        LET idx == ret.mlm.masked_token_indexes
        IN /\ Range(idx) = LabelledIndexes
           /\ Len(idx) = Cardinality(LabelledIndexes)
           /\ Len(ret.mlm.hidden) = Len(idx) /\ Len(ret.mlm.target) = Len(idx)
           /\ \A n \in DOMAIN idx :
                LET b == ret.mlm.hidden[n][1] - 1
                    t == ret.mlm.hidden[n][2]
                IN /\ b \in 0..(Len(args.lm_labels) - 1)
                   /\ t \in 0..(TokLen - 1)
                   /\ idx[n] = b * TokLen + t
                   /\ ret.mlm.target[n] = args.lm_labels[b + 1][t + 1]
                   /\ ret.mlm.target[n] # LmIgnoreIndex
           /\ ret.masked_lm_loss =
                  Mean([n \in DOMAIN idx |->
                          [norm |-> ExpSum(Decoder(ret.mlm.hidden[n])),
                           score |-> ExpSum(<<Decoder(ret.mlm.hidden[n])[ret.mlm.target[n] + 1]>>),
                           n |-> 1]])
           /\ ret.loss = [plus |-> <<ret.ent_loss, ret.masked_lm_loss>>]

\* two MLM sequences of which only the first token of the first is labelled
C29_Witness ==
    /\ TogetherLoss
    /\ Len(args.lm_labels) = 2
    /\ LabelledIndexes = {0}
    /\ ret.mlm.target = <<1>>

====
